---------------------------- MODULE Spec2Model ----------------------------
(***************************************************************************)
(* Model of the two report generators of the repository:                   *)
(*   src/src/ncen_family_exec_report.py      (the "family" report)         *)
(*   src/src/quality_edgar_vendor_report.py  (the "vendor" report)         *)
(* One run of a script is a linear pass main -> query -> (score) ->        *)
(* render -> write_csv -> print, print; every step is one action.          *)
(*                                                                         *)
(* Strings are sequences of one-character strings, so that strip(),        *)
(* lower(), int() and html.escape() are computed and not assumed.          *)
(* A Python value is a record [t, n, s]: t its type, n its number (int and *)
(* bool), s its characters (str).                                          *)
(***************************************************************************)
EXTENDS Integers, Sequences, FiniteSets, TLC

VARIABLES
    report,       \* "family" or "vendor": which script runs
    argv,         \* the command line flags, None when a flag is not given
    environ,      \* the environment variables, None when unset
    gcloud,       \* what `gcloud config get-value project` would do
    bq,           \* what `bq query` would do
    pc,           \* position of main()
    project_id,   \* the project the query is issued against
    rows,         \* the records the query returned
    export_rows,  \* flat_export (family) / report_rows (vendor)
    html,         \* the document handed to WeasyPrint
    pdf,          \* the PDF file
    csv,          \* the CSV file
    printed,      \* the lines printed on stdout
    error,        \* the uncaught exception that ended the run
    calls,        \* how many times each step ran
    summary       \* the FamilyAiSummary / AiAssessment last computed

vars == <<report, argv, environ, gcloud, bq, pc, project_id, rows,
          export_rows, html, pdf, csv, printed, error, calls, summary>>

-----------------------------------------------------------------------------
(* Python values *)

None == [t |-> "null", n |-> 0, s |-> <<>>]
StrV(chars) == [t |-> "str", n |-> 0, s |-> chars]
IntV(k) == [t |-> "int", n |-> k, s |-> <<>>]
BoolV(b) == [t |-> "bool", n |-> IF b THEN 1 ELSE 0, s |-> <<>>]

\* truthiness of a value: `if value`, `value or ...`, `not value`
Truthy(value) ==
    CASE value.t = "null" -> FALSE
      [] value.t = "str" -> value.s # <<>>
      [] OTHER -> value.n # 0

\* dict.get(key): None when the key is missing
Get(row, key) == IF key \in DOMAIN row THEN row[key] ELSE None

-----------------------------------------------------------------------------
(* str methods *)

UpperCase == <<"A","B","C","D","E","F","G","H","I","J","K","L","M",
               "N","O","P","Q","R","S","T","U","V","W","X","Y","Z">>
LowerCase == <<"a","b","c","d","e","f","g","h","i","j","k","l","m",
               "n","o","p","q","r","s","t","u","v","w","x","y","z">>

Whitespace == {" ", "\t", "\n", "\r"}

\* str.lower(), one character
LowerChar(c) ==
    IF \E i \in 1..26 : UpperCase[i] = c
    THEN LowerCase[CHOOSE i \in 1..26 : UpperCase[i] = c]
    ELSE c

\* str.lower()
Lower(chars) == [i \in 1..Len(chars) |-> LowerChar(chars[i])]

\* str.strip(): drop the leading and the trailing whitespace
Strip(chars) ==
    LET keep == {i \in 1..Len(chars) : chars[i] \notin Whitespace}
    IN  IF keep = {} THEN <<>>
        ELSE LET lo == CHOOSE i \in keep : \A j \in keep : i <= j
                 hi == CHOOSE i \in keep : \A j \in keep : j <= i
             IN  SubSeq(chars, lo, hi)

-----------------------------------------------------------------------------
(* Target resolution, family report *)

\* the sentinel words of _is_effective_value
Placeholders ==
    { <<"(","u","n","s","e","t",")">>, <<"u","n","s","e","t">>,
      <<"n","o","n","e">>, <<"n","u","l","l">> }

\* _normalized(value): (value or "").strip()
_normalized(value) == Strip(IF Truthy(value) THEN value.s ELSE <<>>)

\* a variant that compares without lowercasing
IsEffectiveCaseSensitive(chars) ==
    Strip(chars) # <<>> /\ Strip(chars) \notin Placeholders

\* _is_effective_value(value)
_is_effective_value(chars) ==
    LET lowered == Lower(Strip(chars))
    IN  lowered # <<>> /\ lowered \notin Placeholders

\* subprocess.run raises FileNotFoundError when the executable is missing
NotFound == "FileNotFoundError"

\* return value if _is_effective_value(value), else ""
IfEffective(value) ==
    [raised |-> "", value |-> IF _is_effective_value(value) THEN value ELSE <<>>]

\* _detect_default_project_id(), lines 48-54
DetectFromGcloud ==
    IF ~gcloud.found THEN [raised |-> NotFound, value |-> <<>>]
    ELSE IF gcloud.returncode = 0 THEN IfEffective(_normalized(StrV(gcloud.stdout)))
    ELSE [raised |-> "", value |-> <<>>]

\* _detect_default_project_id(): the project, "" when none is found, or
\* NotFound raised by the subprocess call
_detect_default_project_id ==
    IF _is_effective_value(_normalized(environ.GOOGLE_CLOUD_PROJECT))
    THEN [raised |-> "", value |-> _normalized(environ.GOOGLE_CLOUD_PROJECT)]
    ELSE DetectFromGcloud

\* argparse: --project-id, default=os.getenv("BQ_PROJECT_ID")
ArgProjectId ==
    IF argv.project_id # None THEN argv.project_id ELSE environ.BQ_PROJECT_ID

\* argparse: --dataset-id, default=os.getenv("BQ_DATASET_ID")
ArgDatasetId ==
    IF argv.dataset_id # None THEN argv.dataset_id ELSE environ.BQ_DATASET_ID

-----------------------------------------------------------------------------
(* Query Executor *)

(* The stdout of bq is a sequence of lexemes: whitespace characters, the   *)
(* punctuation of a JSON array, a number, and object lexemes, each the     *)
(* text of one JSON object whose parsed dict is bq.objects[lexeme].        *)
NumberLexeme == "1"
IsObject(lexeme) == lexeme \in DOMAIN bq.objects
IsJsonValue(lexeme) == IsObject(lexeme) \/ lexeme = NumberLexeme

NoError == [kind |-> "", at |-> "", detail |-> <<>>]
Raise(kind, at, detail) == [kind |-> kind, at |-> at, detail |-> detail]

\* json.loads(payload): whitespace between lexemes is insignificant
JsonLoads(payload) ==
    LET toks == SelectSeq(payload, LAMBDA x : x \notin Whitespace)
        n == Len(toks)
        inner == SubSeq(toks, 2, n - 1)
        m == n - 2
    IN  IF n = 1 /\ IsJsonValue(toks[1])
        THEN [ok |-> TRUE, list |-> FALSE, items |-> toks]
        ELSE IF n >= 2 /\ toks[1] = "[" /\ toks[n] = "]"
                /\ (m = 0 \/ m % 2 = 1)
                /\ \A i \in 1..m :
                      IF i % 2 = 1 THEN IsJsonValue(inner[i]) ELSE inner[i] = ","
        THEN [ok |-> TRUE, list |-> TRUE,
              items |-> SelectSeq(inner, LAMBDA x : x # ",")]
        ELSE [ok |-> FALSE, list |-> FALSE, items |-> <<>>]

\* the tail both query functions share: payload = stdout.strip() onwards
ParseRows(at) ==
    LET payload == Strip(bq.stdout)
        data == JsonLoads(payload)
    IN  IF payload = <<>>
        THEN [error |-> NoError, rows |-> <<>>]
        ELSE IF ~data.ok
        THEN [error |-> Raise("JSONDecodeError", at, <<>>), rows |-> <<>>]
        ELSE IF ~data.list
        THEN [error |-> Raise("RuntimeError", at,
                              <<"Unexpected bq output format. Expected JSON array.">>),
              rows |-> <<>>]
        ELSE IF \E i \in 1..Len(data.items) : ~IsObject(data.items[i])
        THEN [error |-> Raise("TypeError", at, <<>>), rows |-> <<>>]
        ELSE [error |-> NoError,
              rows |-> [i \in 1..Len(data.items) |-> bq.objects[data.items[i]]]]

\* query_rows(project_id), family report
query_rows ==
    IF ~bq.found
    THEN [error |-> Raise(NotFound, "query", <<>>), rows |-> <<>>]
    ELSE IF bq.returncode # 0
    THEN LET detail == IF Strip(bq.stderr) # <<>> THEN Strip(bq.stderr)
                       ELSE IF Strip(bq.stdout) # <<>> THEN Strip(bq.stdout)
                       ELSE <<"No output from bq CLI">>
         IN  [error |-> Raise("RuntimeError", "query", detail), rows |-> <<>>]
    ELSE ParseRows("query")

\* query_company_metrics(project_id, dataset_id), vendor report
query_company_metrics ==
    IF ~bq.found
    THEN [error |-> Raise(NotFound, "query", <<>>), rows |-> <<>>]
    ELSE IF bq.returncode # 0
    THEN [error |-> Raise("RuntimeError", "query", Strip(bq.stderr)), rows |-> <<>>]
    ELSE ParseRows("query")

-----------------------------------------------------------------------------
(* int(), str() *)

Digits == <<"0","1","2","3","4","5","6","7","8","9">>
IsDigit(c) == \E i \in 1..10 : Digits[i] = c
DigitValue(c) == (CHOOSE i \in 1..10 : Digits[i] = c) - 1

RECURSIVE DigitsValue(_)
DigitsValue(chars) ==
    IF chars = <<>> THEN 0
    ELSE DigitsValue(SubSeq(chars, 1, Len(chars) - 1)) * 10
         + DigitValue(chars[Len(chars)])

\* the digits of int(str) after the sign
ParseDigits(sign, ds) ==
    IF ds # <<>> /\ \A i \in 1..Len(ds) : IsDigit(ds[i])
    THEN [raised |-> "", n |-> sign * DigitsValue(ds)]
    ELSE [raised |-> "ValueError", n |-> 0]

\* int(str) of the stripped text: one sign is accepted, then digits only
ParseSigned(body) ==
    IF body # <<>> /\ body[1] \in {"-", "+"}
    THEN ParseDigits(IF body[1] = "-" THEN 0 - 1 ELSE 1, Tail(body))
    ELSE ParseDigits(1, body)

\* int(str): surrounding whitespace is accepted; anything but a decimal
\* integer raises ValueError
ParseInt(chars) == ParseSigned(Strip(chars))

\* int(value): raised is "" when it returns, else the exception
IntOf(value) ==
    CASE value.t = "null" -> [raised |-> "TypeError", n |-> 0]
      [] value.t = "str" -> ParseInt(value.s)
      [] OTHER -> [raised |-> "", n |-> value.n]

RECURSIVE NatToStr(_)
NatToStr(k) ==
    IF k < 10 THEN <<Digits[k + 1]>>
    ELSE NatToStr(k \div 10) \o <<Digits[(k % 10) + 1]>>

\* str(value)
StrOf(value) ==
    CASE value.t = "null" -> <<"N","o","n","e">>
      [] value.t = "str" -> value.s
      [] value.t = "bool" ->
            IF value.n = 1 THEN <<"T","r","u","e">> ELSE <<"F","a","l","s","e">>
      [] OTHER ->
            IF value.n < 0 THEN <<"-">> \o NatToStr(0 - value.n)
            ELSE NatToStr(value.n)

\* try: return ... except Exception: return 0
OrZero(result) == IF result.raised = "" THEN result.n ELSE 0

\* _to_int(value), family report: any exception of int() gives 0
_to_int(value) == OrZero(IntOf(value))

\* _display(value), family report
_display(value) == IF value = None THEN <<>> ELSE StrOf(value)

-----------------------------------------------------------------------------
(* Scoring Engine, family report *)

(* A float that is a quotient of two integers is kept as the quotient. The *)
(* comparisons of the code against integer cut points are decided on it    *)
(* exactly (the doubles of q / t * 100.0 fall on the same side of          *)
(* 25, 40, 50 and 70 as the exact quotient for all t below 2500).          *)
Ratio(num, den) == [num |-> num, den |-> den]
RatioLess(r, k) == IF r.den > 0 THEN r.num < k * r.den ELSE r.num > k * r.den
RatioGeq(r, k) == ~RatioLess(r, k)

RECURSIVE SumOver(_, _)
\* sum(_to_int(r.get(key)) for r in rows)
SumOver(group, key) ==
    IF group = <<>> THEN 0
    ELSE _to_int(Get(group[1], key)) + SumOver(Tail(group), key)

\* str(r.get("ever_filed_by_edgar_agents_llc_in_window", "")).lower() == "true"
FiledByEdgarAgents(r) ==
    LET key == "ever_filed_by_edgar_agents_llc_in_window"
    IN  key \in DOMAIN r /\ Lower(StrOf(r[key])) = <<"t","r","u","e">>

\* qes_share of _scoring_inputs
QesShare(qes_filings, total_filings) ==
    IF total_filings # 0 THEN Ratio(qes_filings * 100, total_filings) ELSE Ratio(0, 1)

\* avg_agent_count of _scoring_inputs
AvgAgentCount(agent_groups, funds) ==
    IF funds # 0 THEN Ratio(agent_groups, funds) ELSE Ratio(0, 1)

\* _scoring_inputs(rows)
_scoring_inputs(group) ==
    [funds |-> Len(group),
     total_filings |-> SumOver(group, "total_filings_in_window"),
     qes_share |-> QesShare(SumOver(group, "qes_filings_in_window"),
                            SumOver(group, "total_filings_in_window")),
     avg_agent_count |->
         AvgAgentCount(SumOver(group, "total_agent_groups_used_in_window"), Len(group)),
     edgar_agents_llc_count |->
         Cardinality({i \in 1..Len(group) : FiledByEdgarAgents(group[i])})]

\* a variant whose first cut-point is exclusive
FamilyValueScoreExclusive(total_filings, funds) ==
    (IF total_filings > 1000 THEN 3 ELSE IF total_filings >= 300 THEN 2
     ELSE IF total_filings >= 100 THEN 1 ELSE 0)
    + (IF funds >= 10 THEN 2 ELSE IF funds >= 4 THEN 1 ELSE 0)

\* the value_score of _scores
FamilyValueScore(total_filings, funds) ==
    (IF total_filings >= 1000 THEN 3 ELSE IF total_filings >= 300 THEN 2
     ELSE IF total_filings >= 100 THEN 1 ELSE 0)
    + (IF funds >= 10 THEN 2 ELSE IF funds >= 4 THEN 1 ELSE 0)

\* the switch_score of _scores
FamilySwitchScore(qes_share, avg_agent_count, edgar_agents_llc_count) ==
    (IF RatioLess(qes_share, 25) THEN 3 ELSE IF RatioLess(qes_share, 50) THEN 2
     ELSE IF RatioLess(qes_share, 70) THEN 1 ELSE 0)
    + (IF RatioGeq(avg_agent_count, 4) THEN 2
       ELSE IF RatioGeq(avg_agent_count, 2) THEN 1 ELSE 0)
    + (IF edgar_agents_llc_count > 0 THEN 1 ELSE 0)

\* _scores(rows), from the scoring inputs of the rows
ScoresOf(in) ==
    [value_score |-> FamilyValueScore(in.total_filings, in.funds),
     switch_score |-> FamilySwitchScore(in.qes_share, in.avg_agent_count,
                                        in.edgar_agents_llc_count)]

\* _scores(rows)
_scores(group) == ScoresOf(_scoring_inputs(group))

\* the potential_value label of summarize_family
PotentialValue(value_score) ==
    IF value_score >= 5 THEN "$$$$" ELSE IF value_score >= 3 THEN "$$$"
    ELSE IF value_score >= 2 THEN "$$" ELSE "$"

\* the openness label of summarize_family
Openness(switch_score) ==
    IF switch_score >= 5 THEN "Very High" ELSE IF switch_score >= 4 THEN "High"
    ELSE IF switch_score >= 3 THEN "Medium"
    ELSE IF switch_score >= 2 THEN "Low" ELSE "Very Low"

\* the tier of summarize_family
Tier(combined) ==
    IF combined >= 8 THEN "Tier 1" ELSE IF combined >= 6 THEN "Tier 2"
    ELSE IF combined >= 4 THEN "Tier 3" ELSE "Tier 4"

\* likely_problems.append(sentence) under its condition
Sentence(cond, sentence) == IF cond THEN <<sentence>> ELSE <<>>
OrDefault(sentences, default) == IF sentences = <<>> THEN <<default>> ELSE sentences

\* the likely_problems sentences of summarize_family, in their order
LikelyProblems(in) ==
    OrDefault(
        Sentence(RatioGeq(in.avg_agent_count, 3), "Fragmented vendor stack")
        \o Sentence(RatioLess(in.qes_share, 40), "Low incumbent concentration")
        \o Sentence(in.edgar_agents_llc_count > 0, "Competitive vendor usage"),
        "Opportunity to improve cycle-time")

RECURSIVE Join(_, _)
\* sep.join(parts)
Join(sep, parts) ==
    IF Len(parts) <= 1 THEN parts
    ELSE <<parts[1], sep>> \o Join(sep, Tail(parts))

\* f"{x:.2f}" of a quotient, written as the exact quotient
RatioText(r) == StrOf(IntV(r.num)) \o <<"/">> \o StrOf(IntV(r.den))

(* summarize_family(rows), from the scoring inputs and the scores of the   *)
(* rows. The rationale is the template filled with the computed numbers;   *)
(* the rounding of the floats to two decimals is not modelled, each is     *)
(* written as its exact quotient.                                          *)
SummaryOf(in, sc) ==
    [openness_to_switch |-> <<Openness(sc.switch_score)>>,
     potential_value_to_ea |-> <<PotentialValue(sc.value_score)>>,
     conversation_script |-> <<"We help fund families standardize filing operations">>,
     switch_reasoning |->
         <<"QES share is ">> \o RatioText(in.qes_share)
         \o <<"% across ">> \o NatToStr(in.funds)
         \o <<" funds; average agent groups used is ">>
         \o RatioText(in.avg_agent_count) \o <<"; ">>
         \o NatToStr(in.edgar_agents_llc_count)
         \o <<" funds also used Edgar Agents LLC.">>,
     likely_problems_ea_can_solve |-> Join("; ", LikelyProblems(in)),
     tier |-> <<Tier(sc.value_score + sc.switch_score)>>]

\* summarize_family(rows)
summarize_family(group) == SummaryOf(_scoring_inputs(group), _scores(group))

-----------------------------------------------------------------------------
(* Scoring Engine, vendor report *)

RECURSIVE Pow10(_)
Pow10(k) == IF k = 0 THEN 1 ELSE 10 * Pow10(k - 1)

\* the digits of float(str) around the point
DecimalParts(sign, whole, frac) ==
    IF whole \o frac # <<>> /\ \A i \in 1..Len(whole \o frac) : IsDigit((whole \o frac)[i])
    THEN [raised |-> "", r |-> Ratio(sign * DigitsValue(whole \o frac), Pow10(Len(frac)))]
    ELSE [raised |-> "ValueError", r |-> Ratio(0, 1)]

SplitAt(sign, ds, dot) ==
    DecimalParts(sign, SubSeq(ds, 1, dot - 1), SubSeq(ds, dot + 1, Len(ds)))

ParseDecimal(sign, ds) ==
    SplitAt(sign, ds,
            IF \E i \in 1..Len(ds) : ds[i] = "."
            THEN CHOOSE i \in 1..Len(ds) : ds[i] = "." /\ \A j \in 1..(i - 1) : ds[j] # "."
            ELSE Len(ds) + 1)

ParseFloatSigned(body) ==
    IF body # <<>> /\ body[1] \in {"-", "+"}
    THEN ParseDecimal(IF body[1] = "-" THEN 0 - 1 ELSE 1, Tail(body))
    ELSE ParseDecimal(1, body)

(* float(str) for the decimal notation digits[.digits] with an optional    *)
(* sign, kept as the exact quotient; any other text raises ValueError      *)
(* (exponents, "nan" and "inf" are not among the modelled inputs).         *)
ParseFloat(chars) == ParseFloatSigned(Strip(chars))

\* float(value): raised is "" when it returns, else the exception
FloatOf(value) ==
    CASE value.t = "null" -> [raised |-> "TypeError", r |-> Ratio(0, 1)]
      [] value.t = "str" -> ParseFloat(value.s)
      [] OTHER -> [raised |-> "", r |-> Ratio(value.n, 1)]

UpperChar(c) ==
    IF \E i \in 1..26 : LowerCase[i] = c
    THEN UpperCase[CHOOSE i \in 1..26 : LowerCase[i] = c]
    ELSE c

\* str.upper()
Upper(chars) == [i \in 1..Len(chars) |-> UpperChar(chars[i])]

\* tag in text
Contains(text, tag) ==
    \E i \in 0..(Len(text) - Len(tag)) : SubSeq(text, i + 1, i + Len(tag)) = tag

\* high_value_forms of score_company
high_value_forms ==
    { <<"S","-","1">>, <<"S","-","3">>, <<"1","0","-","K">>, <<"1","0","-","Q">>,
      <<"8","-","K">>, <<"D","E","F"," ","1","4","A">>, <<"4","2","4","B">> }

\* the revenue_score of score_company
VendorRevenueScore(total, qes_pct, complex_form_bonus) ==
    (IF total >= 80 THEN 3 ELSE IF total >= 40 THEN 2
     ELSE IF total >= 15 THEN 1 ELSE 0)
    + (IF RatioGeq(qes_pct, 70) THEN 2 ELSE IF RatioGeq(qes_pct, 35) THEN 1 ELSE 0)
    + complex_form_bonus

\* the money_rank label of score_company
MoneyRank(revenue_score) ==
    IF revenue_score >= 6 THEN "$$$$" ELSE IF revenue_score >= 4 THEN "$$$"
    ELSE IF revenue_score >= 2 THEN "$$" ELSE "$"

\* a variant whose first two share buckets are exchanged
VendorSwitchScoreExchanged(qes_pct, other_agents, dominant) ==
    (IF RatioLess(qes_pct, 20) THEN 2 ELSE IF RatioLess(qes_pct, 40) THEN 3
     ELSE IF RatioLess(qes_pct, 55) THEN 1 ELSE 0)
    + (IF other_agents >= 3 THEN 2 ELSE IF other_agents >= 1 THEN 1 ELSE 0)
    + (IF ~dominant THEN 1 ELSE 0)

\* the switch_score of score_company
VendorSwitchScore(qes_pct, other_agents, dominant) ==
    (IF RatioLess(qes_pct, 20) THEN 3 ELSE IF RatioLess(qes_pct, 40) THEN 2
     ELSE IF RatioLess(qes_pct, 55) THEN 1 ELSE 0)
    + (IF other_agents >= 3 THEN 2 ELSE IF other_agents >= 1 THEN 1 ELSE 0)
    + (IF ~dominant THEN 1 ELSE 0)

\* the switch_rank label of score_company
SwitchRank(switch_score) ==
    IF switch_score >= 6 THEN "Very Likely" ELSE IF switch_score >= 4 THEN "Likely"
    ELSE IF switch_score >= 3 THEN "Possible"
    ELSE IF switch_score >= 2 THEN "Low" ELSE "Very Low"

\* int(row[key]): row[key] raises KeyError on a missing key
KeyedInt(row, key) ==
    IF key \in DOMAIN row THEN IntOf(row[key]) ELSE [raised |-> "KeyError", n |-> 0]

\* float(row[key])
KeyedFloat(row, key) ==
    IF key \in DOMAIN row THEN FloatOf(row[key])
    ELSE [raised |-> "KeyError", r |-> Ratio(0, 1)]

\* the first exception of statements run in order, "" when none raises
FirstRaised(raised) ==
    IF \A i \in 1..Len(raised) : raised[i] = "" THEN ""
    ELSE raised[CHOOSE i \in 1..Len(raised) :
                    raised[i] # "" /\ \A j \in 1..(i - 1) : raised[j] = ""]

\* the exception of the first four lines of score_company, "" when none
ScoreCompanyRaises(row) ==
    FirstRaised(<<KeyedInt(row, "total_filings").raised,
                  KeyedFloat(row, "qes_percentage").raised,
                  KeyedInt(row, "other_agents_count").raised,
                  IF "is_qes_dominant_filer" \in DOMAIN row THEN "" ELSE "KeyError">>)

\* last_form = str(row.get("qes_last_form_type", "") or "")
LastForm(form) == IF Truthy(form) THEN StrOf(form) ELSE <<>>

\* complex_form_bonus of score_company
ComplexFormBonus(last_form) ==
    IF \E tag \in high_value_forms : Contains(Upper(last_form), tag) THEN 1 ELSE 0

\* revenue_score and switch_score of score_company, on the values its
\* first lines read
VendorScoresOf(total, qes_pct, other_agents, dominant, complex_form_bonus) ==
    [revenue_score |-> VendorRevenueScore(total, qes_pct, complex_form_bonus),
     switch_score |-> VendorSwitchScore(qes_pct, other_agents, dominant)]

\* the two scores of score_company(row), for a row on which it does not raise
score_company_scores(row) ==
    VendorScoresOf(IntOf(row["total_filings"]).n,
                   FloatOf(row["qes_percentage"]).r,
                   IntOf(row["other_agents_count"]).n,
                   Truthy(row["is_qes_dominant_filer"]),
                   ComplexFormBonus(LastForm(Get(row, "qes_last_form_type"))))

\* score_company from line 80 on, on the values its first lines read
AssessmentOf(total, qes_pct, other_agents, dominant, complex_form_bonus) ==
    [money_rank |-> <<MoneyRank(VendorRevenueScore(total, qes_pct, complex_form_bonus))>>,
     switch_rank |-> <<SwitchRank(VendorSwitchScore(qes_pct, other_agents, dominant))>>,
     reasoning |->
         <<"Total filings=">> \o StrOf(IntV(total))
         \o <<", QUALITY EDGAR SOLUTIONS share=">> \o RatioText(qes_pct)
         \o <<"%, other agents=">> \o StrOf(IntV(other_agents))
         \o <<", dominant=">> \o StrOf(BoolV(dominant)) \o <<".">>]

\* score_company(row), for a row on which it does not raise
score_company(row) ==
    AssessmentOf(IntOf(row["total_filings"]).n,
                 FloatOf(row["qes_percentage"]).r,
                 IntOf(row["other_agents_count"]).n,
                 Truthy(row["is_qes_dominant_filer"]),
                 ComplexFormBonus(LastForm(Get(row, "qes_last_form_type"))))

-----------------------------------------------------------------------------
(* Report Renderer: shared helpers *)

\* html.escape(text), one character
EscapeChar(c) ==
    CASE c = "&" -> <<"&","a","m","p",";">>
      [] c = "<" -> <<"&","l","t",";">>
      [] c = ">" -> <<"&","g","t",";">>
      [] c = "\"" -> <<"&","q","u","o","t",";">>
      [] c = "'" -> <<"&","#","x","2","7",";">>
      [] OTHER -> <<c>>

RECURSIVE Escape(_)
\* html.escape(text)
Escape(chars) ==
    IF chars = <<>> THEN <<>> ELSE EscapeChar(chars[1]) \o Escape(Tail(chars))

(* The characters of the modelled strings in the order of their code       *)
(* points: sorted() compares str values code point by code point.          *)
CodeOrder ==
    <<"\t", "\n", "\r", " ", "\"", "$", "%", "&", "'", "(", ")", "+", ",", "-",
      ".", "/", "0","1","2","3","4","5","6","7","8","9", ":", ";", "<", "=", ">">>
    \o UpperCase \o <<"[", "]">> \o LowerCase \o <<"|">>
CodePoint(c) == CHOOSE i \in 1..Len(CodeOrder) : CodeOrder[i] = c

\* a < b for str
StrLess(a, b) ==
    \E k \in 1..(Len(a) + 1) :
        /\ SubSeq(a, 1, k - 1) = SubSeq(b, 1, k - 1)
        /\ k <= Len(b)
        /\ (k > Len(a) \/ CodePoint(a[k]) < CodePoint(b[k]))

RECURSIVE SortedLast(_)
\* a variant that takes the keys last first
SortedLast(keys) ==
    IF keys = {} THEN <<>>
    ELSE LET last == CHOOSE x \in keys : \A y \in keys \ {x} : StrLess(y, x)
         IN  <<last>> \o SortedLast(keys \ {last})

RECURSIVE Sorted(_)
\* sorted(keys) of distinct str keys
Sorted(keys) ==
    IF keys = {} THEN <<>>
    ELSE LET first == CHOOSE x \in keys : \A y \in keys \ {x} : StrLess(x, y)
         IN  <<first>> \o Sorted(keys \ {first})

(* The keys of a dict in insertion order. The objects bq prints carry the  *)
(* columns in the order of the SELECT list, and scoring appends the        *)
(* derived fields after them.                                              *)
FamilyDerived ==
    <<"family_tier", "family_openness_to_switch", "family_potential_value_to_ea",
      "family_conversation_script", "family_switch_reasoning",
      "family_likely_problems_ea_can_solve">>
FamilyCardFields ==
    <<"companyName", "companyCik", "ncen_investment_company_type",
      "ncen_total_series", "ncen_accession_rows", "total_filings_in_window",
      "qes_filings_in_window", "qes_pct_of_company_filings_in_window",
      "ever_filed_by_edgar_agents_llc_in_window",
      "total_agent_groups_used_in_window", "qes_form_types_for_fund",
      "ncen_admin_names", "ncen_adviser_names", "ncen_adviser_types",
      "agent_groups_used_in_window">>
FamilyNameKey == "ncen_family_investment_company_name"
VendorDerived == <<"money_rank", "switch_rank", "ai_reasoning">>
VendorSource ==
    <<"companyName", "companyCIK", "total_filings", "qes_filings",
      "qes_percentage", "is_qes_dominant_filer", "other_agents_count",
      "qes_vendor_since", "qes_last_filing_date", "qes_last_form_type">>
KeyOrder ==
    <<FamilyNameKey>> \o FamilyCardFields \o <<"qes_form_type_count_pairs">>
    \o SelectSeq(VendorSource, LAMBDA k : k # "companyName")
    \o FamilyDerived \o VendorDerived
\* list(row.keys())
Keys(row) == SelectSeq(KeyOrder, LAMBDA k : k \in DOMAIN row)
Range(seq) == {seq[i] : i \in 1..Len(seq)}

RECURSIVE Flatten(_)
\* the concatenation of a sequence of sequences
Flatten(seqs) == IF seqs = <<>> THEN <<>> ELSE seqs[1] \o Flatten(Tail(seqs))

-----------------------------------------------------------------------------
(* Report Renderer, family report *)

\* fam of render_report
FamilyOf(row) == Strip(_display(Get(row, FamilyNameKey)))

\* families.setdefault(fam, []).append(row), skipped for an empty fam
AddToFamily(families, fam, row) ==
    IF fam = <<>> THEN families
    ELSE IF fam \in DOMAIN families
    THEN [families EXCEPT ![fam] = Append(@, row)]
    ELSE (fam :> <<row>>) @@ families

RECURSIVE GroupFamilies(_, _)
\* the first loop of render_report
GroupFamilies(rs, families) ==
    IF rs = <<>> THEN families
    ELSE GroupFamilies(Tail(rs), AddToFamily(families, FamilyOf(rs[1]), rs[1]))

\* one <li> of family_lines, s the summary of the family
FamilyLineOf(fam_name, fam_rows, s) ==
    [name |-> Escape(fam_name),
     tier |-> s.tier,
     potential_value_to_ea |-> Escape(s.potential_value_to_ea),
     openness_to_switch |-> Escape(s.openness_to_switch),
     total_funds |-> Len(fam_rows),
     qes_funds |-> Cardinality({i \in 1..Len(fam_rows) :
                      _to_int(Get(fam_rows[i], "qes_filings_in_window")) > 0})]

FamilyLine(fam_name, fam_rows) ==
    FamilyLineOf(fam_name, fam_rows, summarize_family(fam_rows))

\* one fund card: every displayed field is html.escape(_display(r.get(f)))
FundCard(r) ==
    [f \in Range(FamilyCardFields) |-> Escape(_display(Get(r, f)))]

\* export_row of render_report
ExportRow(r, s) ==
    [family_tier |-> StrV(s.tier),
     family_openness_to_switch |-> StrV(s.openness_to_switch),
     family_potential_value_to_ea |-> StrV(s.potential_value_to_ea),
     family_conversation_script |-> StrV(s.conversation_script),
     family_switch_reasoning |-> StrV(s.switch_reasoning),
     family_likely_problems_ea_can_solve |-> StrV(s.likely_problems_ea_can_solve)]
    @@ r

\* one pass of the second loop of render_report, s the summary of the
\* family: its page and its rows of flat_export
FamilySectionOf(family_name, fund_rows, s) ==
    [page |->
        [family_name |-> Escape(family_name),
         tier |-> Escape(s.tier),
         openness_to_switch |-> Escape(s.openness_to_switch),
         potential_value_to_ea |-> Escape(s.potential_value_to_ea),
         switch_reasoning |-> Escape(s.switch_reasoning),
         likely_problems_ea_can_solve |-> Escape(s.likely_problems_ea_can_solve),
         conversation_script |-> Escape(s.conversation_script),
         fund_cards |-> [i \in 1..Len(fund_rows) |-> FundCard(fund_rows[i])]],
     export |-> [i \in 1..Len(fund_rows) |-> ExportRow(fund_rows[i], s)]]

FamilySection(family_name, fund_rows) ==
    FamilySectionOf(family_name, fund_rows, summarize_family(fund_rows))

\* the index of the first occurrence of a two-character separator, 0 when
\* there is none
FirstAt(chars, sep) ==
    IF \E i \in 1..(Len(chars) - 1) : SubSeq(chars, i, i + 1) = sep
    THEN CHOOSE i \in 1..(Len(chars) - 1) :
            /\ SubSeq(chars, i, i + 1) = sep
            /\ \A j \in 1..(i - 1) : SubSeq(chars, j, j + 1) # sep
    ELSE 0

RECURSIVE Split(_, _)
\* chars.split(sep) from the first occurrence of sep, at i, on
SplitFrom(chars, sep, i) ==
    IF i = 0 THEN <<chars>>
    ELSE <<SubSeq(chars, 1, i - 1)>> \o Split(SubSeq(chars, i + 2, Len(chars)), sep)

\* chars.split(sep), sep of two characters
Split(chars, sep) == SplitFrom(chars, sep, FirstAt(chars, sep))

\* qes_form_counts[form_type] = qes_form_counts.get(form_type, 0) + count_val,
\* skipped for an empty form_type
AddCount(counts, form_type, count_val) ==
    IF form_type = <<>> THEN counts
    ELSE IF form_type \in DOMAIN counts
    THEN [counts EXCEPT ![form_type] = @ + count_val]
    ELSE (form_type :> count_val) @@ counts

\* one part of pairs.split("||"), "::" first found in it at i: a part
\* without "::" is skipped, a count int() raises on is 0
CountPart(counts, part, i) ==
    IF i = 0 THEN counts
    ELSE AddCount(counts, SubSeq(part, 1, i - 1),
                  OrZero(ParseInt(SubSeq(part, i + 2, Len(part)))))

RECURSIVE CountParts(_, _)
\* the loop over pairs.split("||")
CountParts(counts, parts) ==
    IF parts = <<>> THEN counts
    ELSE CountParts(CountPart(counts, parts[1], FirstAt(parts[1], <<":", ":">>)),
                    Tail(parts))

\* one record: its pairs, skipped when empty
CountPairs(counts, pairs) ==
    IF pairs = <<>> THEN counts ELSE CountParts(counts, Split(pairs, <<"|", "|">>))

RECURSIVE CountForms(_, _)
\* qes_form_counts after the records of the families, in their order
CountForms(counts, rs) ==
    IF rs = <<>> THEN counts
    ELSE CountForms(CountPairs(counts, _display(Get(rs[1], "qes_form_type_count_pairs"))),
                    Tail(rs))

RECURSIVE SortedItems(_, _)
\* the first item under key (-count, form_type), then the others
FirstItem(counts, types, first) ==
    <<[form_type |-> Escape(first), count |-> counts[first]]>>
    \o SortedItems(counts, types \ {first})

\* form_items: the items of qes_form_counts sorted by (-count, form_type)
SortedItems(counts, types) ==
    IF types = {} THEN <<>>
    ELSE FirstItem(counts, types,
                   CHOOSE x \in types : \A y \in types \ {x} :
                       \/ counts[x] > counts[y]
                       \/ counts[x] = counts[y] /\ StrLess(x, y))

\* form_items of render_report, from qes_form_counts
FormItems(counts) == SortedItems(counts, DOMAIN counts)

\* render_report from line 193 on: names is sorted(families.keys())
RenderFamilies(rs, families, names) ==
    [html |->
        [summary |->
            [total_funds |-> Len(rs),
             ea_funds |-> Cardinality({i \in 1..Len(rs) : FiledByEdgarAgents(rs[i])}),
             form_items |->
                 FormItems(CountForms(<<>>,
                     Flatten([i \in 1..Len(names) |-> families[names[i]]]))),
             family_lines |->
                 [i \in 1..Len(names) |-> FamilyLine(names[i], families[names[i]])]],
         pages |->
             [i \in 1..Len(names) |-> FamilySection(names[i], families[names[i]]).page]],
     flat_export |->
        Flatten([i \in 1..Len(names) |->
                    FamilySection(names[i], families[names[i]]).export])]

RenderGrouped(rs, families) == RenderFamilies(rs, families, Sorted(DOMAIN families))

\* render_report(rows, output_pdf): the document and flat_export
render_report(rs) == RenderGrouped(rs, GroupFamilies(rs, <<>>))

-----------------------------------------------------------------------------
(* Report Renderer, vendor report *)

\* scored of apply_ai_assessments
Scored(row, assessment) ==
    [money_rank |-> StrV(assessment.money_rank),
     switch_rank |-> StrV(assessment.switch_rank),
     ai_reasoning |-> StrV(assessment.reasoning)] @@ row

\* enriched_rows.append(scored), unless a later row raises
Enriched(scored, rest) ==
    IF rest.raised # "" THEN rest
    ELSE [raised |-> "", rows |-> <<scored>> \o rest.rows]

RECURSIVE apply_ai_assessments(_)
\* the loop of apply_ai_assessments from a row on, raised the exception of
\* score_company on that row
AssessFrom(rs, raised) ==
    IF raised # "" THEN [raised |-> raised, rows |-> <<>>]
    ELSE Enriched(Scored(rs[1], score_company(rs[1])), apply_ai_assessments(Tail(rs)))

(* apply_ai_assessments(rows): the enriched rows, or the exception of the  *)
(* first row score_company raises on                                       *)
apply_ai_assessments(rs) ==
    IF rs = <<>> THEN [raised |-> "", rows |-> <<>>]
    ELSE AssessFrom(rs, ScoreCompanyRaises(rs[1]))

\* _display_value(value), vendor report
_display_value(value) == IF value = None THEN <<>> ELSE StrOf(value)

\* one <tr> of render_pdf: the text interpolated into each <td>
TableRow(row) ==
    [c \in Range(VendorSource) \cup Range(VendorDerived) |->
        IF c = "is_qes_dominant_filer"
        THEN IF Truthy(Get(row, c)) THEN <<"Yes">> ELSE <<"No">>
        ELSE Escape(_display_value(Get(row, c)))]

\* render_pdf(rows, output_path): the document
render_pdf(rs) == [table_rows |-> [i \in 1..Len(rs) |-> TableRow(rs[i])]]

-----------------------------------------------------------------------------
(* CSV export *)

NoFile == [exists |-> FALSE, header |-> <<>>, data |-> <<>>]
NoDocument == [exists |-> FALSE, doc |-> <<>>]

\* the text csv.writer writes for a value: None is written as ""
CsvText(value) == IF value = None THEN <<>> ELSE StrOf(value)

\* DictWriter._dict_to_list(row): restval "" for a missing key
CsvLine(fieldnames, row) ==
    [k \in Range(fieldnames) |-> IF k \in DOMAIN row THEN CsvText(row[k]) ELSE <<>>]

\* the first row with a key outside fieldnames, Len(rs) + 1 when none
FirstExtra(rs, fieldnames) ==
    IF \A i \in 1..Len(rs) : DOMAIN rs[i] \subseteq Range(fieldnames)
    THEN Len(rs) + 1
    ELSE CHOOSE i \in 1..Len(rs) :
            /\ ~(DOMAIN rs[i] \subseteq Range(fieldnames))
            /\ \A j \in 1..(i - 1) : DOMAIN rs[j] \subseteq Range(fieldnames)

(* writer.writeheader() and the rows written before DictWriter raises      *)
(* ValueError on row `stop`, the first with a key outside fieldnames.      *)
Written(lines, fieldnames, stop) ==
    [raised |-> IF stop > Len(lines) THEN "" ELSE "ValueError",
     file |-> [exists |-> TRUE,
               header |-> fieldnames,
               data |-> [i \in 1..(stop - 1) |-> CsvLine(fieldnames, lines[i])]]]

EmptyFile == [exists |-> TRUE, header |-> <<>>, data |-> <<>>]

\* write_csv(rows, output_csv), family report
write_csv(rs) ==
    IF rs = <<>> THEN [raised |-> "", file |-> EmptyFile]
    ELSE Written(rs, Keys(rs[1]), FirstExtra(rs, Keys(rs[1])))

\* {k: _display_value(v) for k, v in row.items()}
DisplayedRow(row) == [k \in DOMAIN row |-> StrV(_display_value(row[k]))]

\* write_csv(rows, output_path), vendor report: row by row, each value
\* passed through _display_value
vendor_write_csv(rs) ==
    IF rs = <<>> THEN [raised |-> "", file |-> EmptyFile]
    ELSE Written([i \in 1..Len(rs) |-> DisplayedRow(rs[i])], Keys(rs[1]),
                 FirstExtra(rs, Keys(rs[1])))

-----------------------------------------------------------------------------
(* main() of both reports, one action per step *)

Steps == {"main", "query", "score", "render", "csv", "print_report", "print_csv"}
Ran(step) == calls' = [calls EXCEPT ![step] = @ + 1]

\* main(), family report, lines 359-362, detected the outcome of
\* _detect_default_project_id()
Detected(detected) ==
    IF detected.raised # ""
    THEN [error |-> Raise(detected.raised, "main", <<>>), value |-> <<>>]
    ELSE IF ~_is_effective_value(detected.value)
    THEN [error |-> Raise("SystemExit", "main", <<"BigQuery project is empty.">>),
          value |-> <<>>]
    ELSE [error |-> NoError, value |-> detected.value]

\* main(), family report, lines 358-362: the project or the exception
FamilyResolve ==
    IF _is_effective_value(_normalized(ArgProjectId))
    THEN [error |-> NoError, value |-> _normalized(ArgProjectId)]
    ELSE Detected(_detect_default_project_id)

\* main(), vendor report, lines 250-253: the project or the exception
VendorResolve ==
    IF ~Truthy(ArgProjectId) \/ ~Truthy(ArgDatasetId)
    THEN [error |-> Raise("SystemExit", "main",
                          <<"Both --project-id and --dataset-id (or env vars) are required.">>),
          value |-> <<>>]
    ELSE [error |-> NoError, value |-> ArgProjectId.s]

FamilyMain ==
    /\ report = "family" /\ pc = "main"
    /\ LET r == FamilyResolve
       IN  /\ error' = r.error
           /\ project_id' = r.value
           /\ pc' = IF r.error = NoError THEN "query" ELSE "failed"
    /\ Ran("main")
    /\ UNCHANGED <<report, argv, environ, gcloud, bq, rows, export_rows, html,
                   pdf, csv, printed, summary>>

VendorMain ==
    /\ report = "vendor" /\ pc = "main"
    /\ LET r == VendorResolve
       IN  /\ error' = r.error
           /\ project_id' = r.value
           /\ pc' = IF r.error = NoError THEN "query" ELSE "failed"
    /\ Ran("main")
    /\ UNCHANGED <<report, argv, environ, gcloud, bq, rows, export_rows, html,
                   pdf, csv, printed, summary>>

\* a variant that goes on to render after a failed query
FamilyQueryGoesOn ==
    /\ report = "family" /\ pc = "query"
    /\ error' = query_rows.error
    /\ rows' = query_rows.rows
    /\ pc' = "render"
    /\ Ran("query")
    /\ UNCHANGED <<report, argv, environ, gcloud, bq, project_id, export_rows,
                   html, pdf, csv, printed, summary>>

FamilyQuery ==
    /\ report = "family" /\ pc = "query"
    /\ LET r == query_rows
       IN  /\ error' = r.error
           /\ rows' = r.rows
           /\ pc' = IF r.error = NoError THEN "render" ELSE "failed"
    /\ Ran("query")
    /\ UNCHANGED <<report, argv, environ, gcloud, bq, project_id, export_rows,
                   html, pdf, csv, printed, summary>>

VendorQuery ==
    /\ report = "vendor" /\ pc = "query"
    /\ LET r == query_company_metrics
       IN  /\ error' = r.error
           /\ rows' = r.rows
           /\ pc' = IF r.error = NoError THEN "score" ELSE "failed"
    /\ Ran("query")
    /\ UNCHANGED <<report, argv, environ, gcloud, bq, project_id, export_rows,
                   html, pdf, csv, printed, summary>>

\* report_rows = apply_ai_assessments(metrics_rows)
VendorScore ==
    /\ report = "vendor" /\ pc = "score"
    /\ LET r == apply_ai_assessments(rows)
       IN  /\ error' = IF r.raised = "" THEN NoError ELSE Raise(r.raised, "score", <<>>)
           /\ export_rows' = r.rows
           /\ pc' = IF r.raised = "" THEN "render" ELSE "failed"
    /\ Ran("score")
    /\ UNCHANGED <<report, argv, environ, gcloud, bq, project_id, rows, html,
                   pdf, csv, printed, summary>>

\* render_pdf(report_rows, Path(args.output))
VendorRender ==
    /\ report = "vendor" /\ pc = "render"
    /\ html' = render_pdf(export_rows)
    /\ pdf' = [exists |-> TRUE, doc |-> html']
    /\ pc' = "csv"
    /\ Ran("render")
    /\ UNCHANGED <<report, argv, environ, gcloud, bq, project_id, rows,
                   export_rows, csv, printed, error, summary>>

\* export_rows = render_report(rows, Path(args.output))
FamilyRender ==
    /\ report = "family" /\ pc = "render"
    /\ LET r == render_report(rows)
       IN  /\ html' = r.html
           /\ pdf' = [exists |-> TRUE, doc |-> r.html]
           /\ export_rows' = r.flat_export
    /\ pc' = "csv"
    /\ Ran("render")
    /\ UNCHANGED <<report, argv, environ, gcloud, bq, project_id, rows, csv,
                   printed, error, summary>>

FamilyWriteCsv ==
    /\ report = "family" /\ pc = "csv"
    /\ LET w == write_csv(export_rows)
       IN  /\ csv' = w.file
           /\ error' = IF w.raised = "" THEN NoError ELSE Raise(w.raised, "csv", <<>>)
           /\ pc' = IF w.raised = "" THEN "print_report" ELSE "failed"
    /\ Ran("csv")
    /\ UNCHANGED <<report, argv, environ, gcloud, bq, project_id, rows,
                   export_rows, html, pdf, printed, summary>>

VendorWriteCsv ==
    /\ report = "vendor" /\ pc = "csv"
    /\ LET w == vendor_write_csv(export_rows)
       IN  /\ csv' = w.file
           /\ error' = IF w.raised = "" THEN NoError ELSE Raise(w.raised, "csv", <<>>)
           /\ pc' = IF w.raised = "" THEN "print_report" ELSE "failed"
    /\ Ran("csv")
    /\ UNCHANGED <<report, argv, environ, gcloud, bq, project_id, rows,
                   export_rows, html, pdf, printed, summary>>

\* print(f"Created report: {args.output}")
PrintReport ==
    /\ pc = "print_report"
    /\ printed' = Append(printed, "Created report")
    /\ pc' = "print_csv"
    /\ Ran("print_report")
    /\ UNCHANGED <<report, argv, environ, gcloud, bq, project_id, rows,
                   export_rows, html, pdf, csv, error, summary>>

\* print(f"Created flat data: {csv_path}")
PrintCsv ==
    /\ pc = "print_csv"
    /\ printed' = Append(printed, "Created flat data")
    /\ pc' = "done"
    /\ Ran("print_csv")
    /\ UNCHANGED <<report, argv, environ, gcloud, bq, project_id, rows,
                   export_rows, html, pdf, csv, error, summary>>

Next ==
    \/ FamilyMain
    \/ VendorMain
    \/ FamilyQuery
    \/ VendorQuery
    \/ VendorScore
    \/ FamilyRender
    \/ VendorRender
    \/ FamilyWriteCsv
    \/ VendorWriteCsv
    \/ PrintReport
    \/ PrintCsv

\* the state of a process that has not run yet
Fresh ==
    /\ pc = "main"
    /\ project_id = <<>>
    /\ rows = <<>>
    /\ export_rows = <<>>
    /\ html = <<>>
    /\ pdf = NoDocument
    /\ csv = NoFile
    /\ printed = <<>>
    /\ error = NoError
    /\ calls = [s \in Steps |-> 0]
    /\ summary = <<>>

-----------------------------------------------------------------------------
(* Inputs *)

FamilyRow(name, total, qes, agents, ea) ==
    [ncen_family_investment_company_name |-> name,
     companyName |-> StrV(<<"F","u","n","d"," ","&"," ","C","o">>),
     companyCik |-> StrV(<<"7">>),
     total_filings_in_window |-> total,
     qes_filings_in_window |-> qes,
     ever_filed_by_edgar_agents_llc_in_window |-> ea,
     total_agent_groups_used_in_window |-> agents]

VendorRow(total, pct, agents, dominant, form) ==
    [companyName |-> StrV(<<"A","c","m","e"," ","<","b",">">>),
     companyCIK |-> StrV(<<"9">>),
     total_filings |-> total,
     qes_filings |-> StrV(<<"1">>),
     qes_percentage |-> pct,
     is_qes_dominant_filer |-> dominant,
     other_agents_count |-> agents,
     qes_last_form_type |-> form]

FamilyRowA ==
    FamilyRow(StrV(<<"A">>), StrV(<<"5","0">>), StrV(<<"1","0">>), StrV(<<"2">>),
              StrV(<<"t","r","u","e">>))
FamilyRowB ==
    FamilyRow(StrV(<<"B">>), StrV(<<"5">>), StrV(<<"5">>), StrV(<<"1">>),
              StrV(<<"f","a","l","s","e">>))
VendorRowA ==
    VendorRow(StrV(<<"8","0">>), StrV(<<"1","2",".","5">>), StrV(<<"3">>),
              BoolV(FALSE), StrV(<<"1","0","-","K">>))
VendorRowB ==
    VendorRow(StrV(<<"7">>), StrV(<<"9","0">>), StrV(<<"0">>), BoolV(TRUE), None)

\* the dicts of the two object lexemes of a run
ObjectsOf(rep) ==
    IF rep = "family" THEN ("{a}" :> FamilyRowA) @@ ("{b}" :> FamilyRowB)
    ELSE ("{a}" :> VendorRowA) @@ ("{b}" :> VendorRowB)

\* bq prints an array of one object and exits 0
BqPrintsOne(rep) ==
    [found |-> TRUE, returncode |-> 0, stdout |-> <<"[", "{a}", "]", "\n">>,
     stderr |-> <<>>, objects |-> ObjectsOf(rep)]

\* bq fails with a diagnostic on stderr
BqDenied(rep) ==
    [found |-> TRUE, returncode |-> 1, stdout |-> <<>>,
     stderr |-> <<"d","e","n","i","e","d","\n">>, objects |-> ObjectsOf(rep)]

ProjectFlags ==
    { None, StrV(<<>>), StrV(<<"(","u","n","s","e","t",")">>),
      StrV(<<"N","U","L","L">>), StrV(<<"p","f">>), StrV(<<" ","P","f","\n">>) }
ProjectEnvs == { None, StrV(<<"n","o","n","e">>), StrV(<<"p","b">>) }
GoogleCloudEnvs ==
    { None, StrV(<<" ">>), StrV(<<"U","n","s","e","t"," ">>), StrV(<<"p","e">>) }
DatasetFlags == { None, StrV(<<>>), StrV(<<"d","s">>) }
DatasetEnvs == { None, StrV(<<"d","e">>) }
GcloudOutputs ==
    { <<>>, <<"(","u","n","s","e","t",")","\n">>, <<"p","g","\n">>,
      <<"n","u","l","l","s","\n">> }
GcloudRuns ==
    {[found |-> FALSE, returncode |-> 0, stdout |-> <<>>]}
    \cup [found : {TRUE}, returncode : {0, 1}, stdout : GcloudOutputs]

\* valid flags and a working gcloud
GoodArgv == [project_id |-> StrV(<<"p","f">>), dataset_id |-> StrV(<<"d","s">>)]
NoEnviron == [BQ_PROJECT_ID |-> None, BQ_DATASET_ID |-> None,
              GOOGLE_CLOUD_PROJECT |-> None]
GoodGcloud == [found |-> TRUE, returncode |-> 0, stdout |-> <<"p","g","\n">>]

-----------------------------------------------------------------------------
(* Runs over the inputs of target resolution *)

InitResolve ==
    /\ Fresh
    /\ report \in {"family", "vendor"}
    /\ argv \in [project_id : ProjectFlags, dataset_id : DatasetFlags]
    /\ environ \in [BQ_PROJECT_ID : ProjectEnvs, BQ_DATASET_ID : DatasetEnvs,
                    GOOGLE_CLOUD_PROJECT : GoogleCloudEnvs]
    /\ gcloud \in GcloudRuns
    /\ bq \in {BqPrintsOne(report), BqDenied(report)}

SpecResolve == InitResolve /\ [][Next]_vars

-----------------------------------------------------------------------------
(* Runs over the outcomes of bq *)

MaxLexemes == 5
Lexemes == {" ", "[", "]", ",", "{a}", "{b}", NumberLexeme}

(* What bq may print: any text of at most MaxLexemes lexemes with at most  *)
(* one opening bracket (bq prints a flat array; nested arrays are outside  *)
(* the model).                                                             *)
BqOutputs ==
    {out \in UNION {[1..n -> Lexemes] : n \in 0..MaxLexemes} :
        Cardinality({i \in 1..Len(out) : out[i] = "["}) <= 1}

BqDiagnostics == { <<>>, <<" ", "\n">>, <<"d","e","n","i","e","d","\n">>,
                   <<"q","u","o","t","a">> }

BqRuns(rep) ==
    {[found |-> FALSE, returncode |-> 0, stdout |-> <<>>, stderr |-> <<>>,
      objects |-> ObjectsOf(rep)]}
    \cup {[found |-> TRUE, returncode |-> 0, stdout |-> out, stderr |-> <<>>,
           objects |-> ObjectsOf(rep)] : out \in BqOutputs}
    \cup {[found |-> TRUE, returncode |-> rc, stdout |-> out, stderr |-> err,
           objects |-> ObjectsOf(rep)] :
              rc \in {1, 2}, err \in BqDiagnostics,
              out \in BqDiagnostics}

InitQuery ==
    /\ Fresh
    /\ report \in {"family", "vendor"}
    /\ argv = GoodArgv
    /\ environ = NoEnviron
    /\ gcloud = GoodGcloud
    /\ bq \in BqRuns(report)

SpecQuery == InitQuery /\ [][Next]_vars

-----------------------------------------------------------------------------
(* Runs over the records bq returns *)

MaxRows == 3

AlphaFund == <<"A","l","p","h","a"," ","F","u","n","d">>
BetaFund == <<"B","e","t","a"," ","F","u","n","d">>

\* a fund of a family, with its CIK
Fund(name, cik, total, qes) ==
    [FamilyRow(name, StrV(total), StrV(qes), StrV(<<"2">>), StrV(<<"f","a","l","s","e">>))
        EXCEPT !.companyCik = cik]

(* The records of the family query: two funds of Alpha Fund and one of     *)
(* Beta Fund, a fund whose family name comes padded, a fund with a null    *)
(* family name, a fund without the column, and a fund with a null field    *)
(* and a field the others lack.                                            *)
FamilyRecords ==
    ("{a}" :> Fund(StrV(AlphaFund), StrV(<<"1">>), <<"5","0">>, <<"1","0">>))
    @@ ("{b}" :> Fund(StrV(AlphaFund), StrV(<<"2">>), <<"6","0">>, <<"1","5">>))
    @@ ("{c}" :> Fund(StrV(BetaFund), StrV(<<"3">>), <<"5">>, <<"5">>))
    @@ ("{d}" :> Fund(StrV(<<" ">> \o AlphaFund \o <<"\n">>), StrV(<<"4">>),
                      <<"7">>, <<"0">>))
    @@ ("{e}" :> Fund(None, StrV(<<"5">>), <<"9">>, <<"1">>))
    @@ ("{f}" :> [companyName |-> StrV(<<"L","o","n","e">>),
                  companyCik |-> StrV(<<"6">>),
                  total_filings_in_window |-> StrV(<<"3">>)])
    @@ ("{g}" :> ([ncen_admin_names |-> StrV(<<"A","d","m","i","n">>)]
                  @@ Fund(StrV(BetaFund), None, <<"8">>, <<"2">>)))

\* a company, with its CIK
Company(cik, total, form) ==
    [VendorRow(total, StrV(<<"1","2",".","5">>), StrV(<<"3">>), BoolV(FALSE), form)
        EXCEPT !.companyCIK = cik]

\* the company record without a column
Without(row, key) == [k \in DOMAIN row \ {key} |-> row[k]]

(* The records of the vendor query: two companies, one with a null form    *)
(* type, a company with a null filing count, a company without the form    *)
(* type column, a company with a column the others lack, a company without *)
(* the agent count column, and a company with a null name.                 *)
VendorRecords ==
    ("{a}" :> Company(StrV(<<"1">>), StrV(<<"8","0">>), StrV(<<"1","0","-","K">>)))
    @@ ("{b}" :> Company(StrV(<<"2">>), StrV(<<"7">>), None))
    @@ ("{c}" :> Company(StrV(<<"3">>), None, StrV(<<"8","-","K">>)))
    @@ ("{d}" :> Without(Company(StrV(<<"4">>), StrV(<<"4","0">>), None),
                         "qes_last_form_type"))
    @@ ("{e}" :> ([qes_vendor_since |-> StrV(<<"2","0","2","0">>)]
                  @@ Company(StrV(<<"5">>), StrV(<<"1","5">>), StrV(<<"N","-","C","E","N">>))))
    @@ ("{f}" :> Without(Company(StrV(<<"6">>), StrV(<<"9">>), None),
                         "other_agents_count"))
    @@ ("{g}" :> [Company(StrV(<<"7">>), StrV(<<"2">>), StrV(<<"1","0","-","Q">>))
                     EXCEPT !.companyName = None])

RecordsOf(rep) == IF rep = "family" THEN FamilyRecords ELSE VendorRecords

\* the array bq prints with --format=prettyjson
PrettyJson(items) ==
    <<"[", "\n">>
    \o [i \in 1..(2 * Len(items)) |->
           IF i % 2 = 1 THEN items[(i + 1) \div 2]
           ELSE IF i = 2 * Len(items) THEN "\n" ELSE ","]
    \o <<"]", "\n">>

\* bq returns up to MaxRows of the records, in any order, repeats included
BqReturns(rep) ==
    {[found |-> TRUE, returncode |-> 0, stdout |-> PrettyJson(items),
      stderr |-> <<>>, objects |-> RecordsOf(rep)] :
        items \in UNION {[1..n -> DOMAIN RecordsOf(rep)] : n \in 0..MaxRows}}

InitRender ==
    /\ Fresh
    /\ report \in {"family", "vendor"}
    /\ argv = GoodArgv
    /\ environ = NoEnviron
    /\ gcloud = GoodGcloud
    /\ bq \in BqReturns(report)

SpecRender == InitRender /\ [][Next]_vars

-----------------------------------------------------------------------------
(* The Scoring Engine on its own: a caller scores a family group or a      *)
(* company row, then scores it again or scores one that differs from it in *)
(* one input.                                                              *)

MaxFunds == 10

\* count fields as bq prints them (INT64 as a string), and as they come
\* when a column is null, is not a number, or was loaded as a number
Totals ==
    { None, StrV(<<"n","/","a">>), StrV(<<"9","9">>), StrV(<<"1","0","0">>),
      StrV(<<"2","9","9">>), StrV(<<" ","3","0","0"," ">>), StrV(<<"9","9","9">>),
      IntV(1000), StrV(<<"1","2","0","0">>) }
QesCounts ==
    { None, StrV(<<"2","4">>), StrV(<<"2","5">>), StrV(<<"4","9">>),
      StrV(<<"5","0">>), StrV(<<"6","9">>), StrV(<<"+","7","0">>),
      StrV(<<"2","0","0">>) }
AgentCounts ==
    { None, StrV(<<"2">>), StrV(<<"3">>), StrV(<<"4">>), IntV(8), StrV(<<"2","0">>) }
EdgarAgentsFlags ==
    { None, StrV(<<"f","a","l","s","e">>), StrV(<<"t","r","u","e">>), BoolV(TRUE) }

\* a fund with no counts at all, and a fund with some
FundWithout == [ncen_family_investment_company_name |-> StrV(<<"A">>)]
FundWith ==
    FamilyRow(StrV(<<"A">>), StrV(<<"1","0","0">>), StrV(<<"5","0">>),
              StrV(<<"4">>), StrV(<<"T","r","u","e">>))
OtherFunds == {FundWithout, FundWith}

\* the first fund of a group: every pair of filing counts, and every pair
\* of agent count and Edgar Agents flag
FirstFunds ==
    {FamilyRow(StrV(<<"A">>), total, qes, agents_ea[1], agents_ea[2]) :
        total \in Totals, qes \in QesCounts,
        agents_ea \in { <<None, StrV(<<"f","a","l","s","e">>)>>,
                        <<StrV(<<"2","0">>), BoolV(TRUE)>> }}
    \cup {FamilyRow(StrV(<<"A">>), filings[1], filings[2], agents, ea) :
            filings \in { <<StrV(<<"1","0","0">>), StrV(<<"2","5">>)>>,
                          <<StrV(<<"1","2","0","0">>), StrV(<<"2","0","0">>)>> },
            agents \in AgentCounts, ea \in EdgarAgentsFlags}

\* a group: a first fund and more funds, all alike, MaxFunds at most
FamilyGroups ==
    {<<first>> \o [i \in 1..k |-> FundWithout] :
        first \in FirstFunds, k \in 0..(MaxFunds - 1)}
    \cup {<<first>> \o [i \in 1..k |-> FundWith] : first \in FirstFunds, k \in 1..2}

\* the groups that differ from a group in one input of its first fund, or
\* by one fund more or less, and the group itself
FamilyVariants(group) ==
    {group}
    \cup {[group EXCEPT ![1].total_filings_in_window = v] : v \in Totals}
    \cup {[group EXCEPT ![1].qes_filings_in_window = v] : v \in QesCounts}
    \cup {[group EXCEPT ![1].total_agent_groups_used_in_window = v] : v \in AgentCounts}
    \cup {[group EXCEPT ![1].ever_filed_by_edgar_agents_llc_in_window = v] :
             v \in EdgarAgentsFlags}
    \cup {Append(group, other) : other \in
             IF Len(group) >= MaxFunds THEN {}
             ELSE IF Len(group) >= 2 THEN {group[2]} ELSE OtherFunds}
    \cup (IF Len(group) >= 2 THEN {SubSeq(group, 1, Len(group) - 1)} ELSE {})

VendorTotals ==
    { StrV(<<"0">>), StrV(<<"1","4">>), StrV(<<"1","5">>), StrV(<<"3","9">>),
      StrV(<<"4","0">>), StrV(<<"7","9">>), IntV(80) }
VendorPercentages ==
    { StrV(<<"0">>), StrV(<<"1","9",".","9","9">>), StrV(<<"2","0">>),
      StrV(<<"3","4",".","9">>), StrV(<<"3","5",".","0">>),
      StrV(<<"3","9",".","9","9">>), StrV(<<"4","0">>),
      StrV(<<"5","4",".","9","9">>), StrV(<<" ","5","5">>),
      StrV(<<"6","9",".","9">>), StrV(<<"7","0">>), StrV(<<"1","0","0",".","0">>) }
VendorAgentCounts == { StrV(<<"0">>), StrV(<<"1">>), StrV(<<"2">>), IntV(3) }
DominantFlags == { BoolV(TRUE), BoolV(FALSE) }
LastForms ==
    { None, StrV(<<"N","-","C","E","N">>), StrV(<<"d","e","f"," ","1","4","a">>) }

VendorRows ==
    {VendorRow(total, pct, agents, dominant, form) :
        total \in VendorTotals, pct \in VendorPercentages,
        agents \in VendorAgentCounts, dominant \in DominantFlags,
        form \in LastForms}

\* the rows that differ from a row in one input, and the row itself
VendorVariants(row) ==
    {row}
    \cup {[row EXCEPT !.total_filings = v] : v \in VendorTotals}
    \cup {[row EXCEPT !.qes_percentage = v] : v \in VendorPercentages}
    \cup {[row EXCEPT !.other_agents_count = v] : v \in VendorAgentCounts}
    \cup {[row EXCEPT !.is_qes_dominant_filer = v] : v \in DominantFlags}
    \cup {[row EXCEPT !.qes_last_form_type = v] : v \in LastForms}

\* what a caller of _scores and summarize_family holds afterwards
FamilyScored(group) ==
    [scores |-> _scores(group), result |-> summarize_family(group)]

\* what score_company computes: its two scores and the AiAssessment
VendorScored(row) ==
    [scores |-> score_company_scores(row), result |-> score_company(row)]

ScoreUnchanged ==
    UNCHANGED <<report, argv, environ, gcloud, bq, project_id, export_rows,
                html, pdf, csv, printed, error>>

\* summary = summarize_family(fam_rows)
FamilySummarize ==
    /\ report = "family" /\ pc = "score"
    /\ summary' = FamilyScored(rows)
    /\ pc' = "scored"
    /\ Ran("score")
    /\ UNCHANGED rows
    /\ ScoreUnchanged

\* summarize_family called again, on the same group or on a variant of it
FamilySummarizeAgain ==
    /\ report = "family" /\ pc = "scored"
    /\ \E group \in FamilyVariants(rows) :
          /\ rows' = group
          /\ summary' = FamilyScored(group)
    /\ Ran("score")
    /\ pc' = "rescored"
    /\ ScoreUnchanged

\* assessment = score_company(row)
VendorScoreCompany ==
    /\ report = "vendor" /\ pc = "score"
    /\ summary' = VendorScored(rows[1])
    /\ pc' = "scored"
    /\ Ran("score")
    /\ UNCHANGED rows
    /\ ScoreUnchanged

\* score_company called again, on the same row or on a variant of it
VendorScoreCompanyAgain ==
    /\ report = "vendor" /\ pc = "scored"
    /\ \E row \in VendorVariants(rows[1]) :
          /\ rows' = <<row>>
          /\ summary' = VendorScored(row)
    /\ Ran("score")
    /\ pc' = "rescored"
    /\ ScoreUnchanged

NextScore ==
    \/ FamilySummarize
    \/ FamilySummarizeAgain
    \/ VendorScoreCompany
    \/ VendorScoreCompanyAgain

InitScore ==
    /\ report \in {"family", "vendor"}
    /\ argv = GoodArgv
    /\ environ = NoEnviron
    /\ gcloud = GoodGcloud
    /\ bq = BqPrintsOne(report)
    /\ pc = "score"
    /\ project_id = <<"p","f">>
    /\ rows \in IF report = "family" THEN FamilyGroups
                ELSE {<<row>> : row \in VendorRows}
    /\ export_rows = <<>>
    /\ html = <<>>
    /\ pdf = NoDocument
    /\ csv = NoFile
    /\ printed = <<>>
    /\ error = NoError
    /\ calls = [s \in Steps |-> 0]
    /\ summary = <<>>

SpecScore == InitScore /\ [][NextScore]_vars

-----------------------------------------------------------------------------
(* Claims on target resolution and on fatal errors *)

\* a candidate is valid iff it is there and, trimmed and lowercased, is
\* neither empty nor a sentinel word
ValidCandidate(c) ==
    /\ c # None
    /\ Lower(Strip(c.s)) # <<>>
    /\ Lower(Strip(c.s)) \notin
         { <<"(","u","n","s","e","t",")">>, <<"u","n","s","e","t">>,
           <<"n","o","n","e">>, <<"n","u","l","l">> }

\* the three candidates in their order: the --project-id value (argparse
\* defaults it to BQ_PROJECT_ID), GOOGLE_CLOUD_PROJECT, and what a gcloud
\* that ran and exited 0 printed
Candidates ==
    <<ArgProjectId,
      environ.GOOGLE_CLOUD_PROJECT,
      IF gcloud.found /\ gcloud.returncode = 0 THEN StrV(gcloud.stdout) ELSE None>>

FirstValid ==
    CHOOSE i \in 1..3 :
        ValidCandidate(Candidates[i]) /\ \A j \in 1..(i - 1) : ~ValidCandidate(Candidates[j])

\* the outcome the resolution rule asks for, once main() has resolved
ResolvedByRule ==
    IF \E i \in 1..3 : ValidCandidate(Candidates[i])
    THEN error.at # "main" /\ project_id = Strip(Candidates[FirstValid].s)
    ELSE pc = "failed" /\ error.at = "main"

(* C1: in the family report the project is the first valid candidate among *)
(* the --project-id value, the environment variable and the trimmed output *)
(* of the local configuration command, and the run fails in resolution     *)
(* exactly when none of the three is valid.                                *)
C1_FamilyResolution ==
    (report = "family" /\ calls["main"] = 1) => ResolvedByRule

\* the example of the claim: explicit '', environment a placeholder, the
\* tool prints the project
C1_Witness ==
    /\ report = "family" /\ calls["main"] = 1
    /\ ArgProjectId = StrV(<<>>)
    /\ environ.GOOGLE_CLOUD_PROJECT = StrV(<<"U","n","s","e","t"," ">>)
    /\ project_id = <<"p","g">>
    /\ pc = "query"

(* C2: in the vendor report the project is resolved by the same rule as in *)
(* the family report (flag, environment variable, local tool; placeholders *)
(* rejected), and only the dataset has no fallback.                        *)
C2_VendorResolution ==
    (report = "vendor" /\ calls["main"] = 1) =>
        IF ~Truthy(ArgDatasetId) THEN pc = "failed" /\ error.at = "main"
        ELSE ResolvedByRule

(* C3: a fatal error halts before producing output. After a failed         *)
(* resolution or argument check no query was issued; after a failure of    *)
(* resolution, of the argument check or of the query the run has ended     *)
(* with no PDF, no CSV and no confirmation line; no step runs twice.       *)
C3_FatalHalts ==
    /\ error.at = "main" => calls["query"] = 0
    /\ error.at \in {"main", "query"} =>
          /\ pc = "failed"
          /\ ~pdf.exists /\ ~csv.exists /\ printed = <<>>
          /\ \A s \in Steps \ {"main", "query"} : calls[s] = 0
    /\ pc = "failed" => error # NoError /\ ~ENABLED Next
    /\ \A s \in Steps : calls[s] <= 1

\* a run of the vendor report whose query failed
C3_Witness ==
    /\ report = "vendor" /\ pc = "failed" /\ error.at = "query"
    /\ calls["query"] = 1 /\ bq.returncode # 0

-----------------------------------------------------------------------------
(* Claims on the Query Executor *)

\* the text of a JSON array of the given object lexemes
ArrayText(items) ==
    <<"[">> \o [i \in 1..(2 * Len(items) - 1) |->
                   IF i % 2 = 1 THEN items[(i + 1) \div 2] ELSE ","]
    \o <<"]">>

\* the output with its whitespace removed
Squeezed(out) == SelectSeq(out, LAMBDA x : x \notin Whitespace)

\* the sequences of object lexemes whose array the output spells
ArraysSpelled(out) ==
    {items \in UNION {[1..n -> DOMAIN bq.objects] : n \in 0..Len(out)} :
        Squeezed(out) = ArrayText(items)}

\* the diagnostic text bq produced: what it wrote to stderr, or to stdout
\* when it wrote nothing to stderr
Diagnostics == {Strip(bq.stderr), Strip(bq.stdout)} \ {<<>>}

QueryFailed == pc = "failed" /\ error.at = "query"
QueryRan == calls["query"] = 1 /\ bq.found

(* C4: a non-zero exit is a fatal error carrying the diagnostic text bq    *)
(* produced; exit 0 with a JSON array of objects yields its rows in order; *)
(* exit 0 with output that is unparseable or not an array is a fatal       *)
(* error. Both reports classify alike.                                     *)
C4_QueryClassified ==
    QueryRan =>
        /\ bq.returncode # 0 =>
              /\ QueryFailed
              /\ Diagnostics # {} => error.detail \in Diagnostics
        /\ bq.returncode = 0 =>
              IF ArraysSpelled(bq.stdout) # {}
              THEN /\ error.at # "query"
                   /\ \E items \in ArraysSpelled(bq.stdout) :
                         rows = [i \in 1..Len(items) |-> bq.objects[items[i]]]
              ELSE QueryFailed

\* bq failed having written its diagnostic to stdout only, and the error
\* of the vendor report carries none of it
C4_DiagnosticLost ==
    /\ report = "vendor" /\ QueryRan /\ bq.returncode # 0
    /\ Strip(bq.stderr) = <<>> /\ Strip(bq.stdout) = <<"q","u","o","t","a">>
    /\ QueryFailed /\ error.detail = <<>>

\* bq exited 0 printing nothing and the run went on with no rows
C4_BlankAccepted ==
    /\ QueryRan /\ bq.returncode = 0 /\ bq.stdout = <<" ">>
    /\ error = NoError /\ rows = <<>> /\ pc # "failed"

-----------------------------------------------------------------------------
(* Claims on the Scoring Engine *)

\* the number each count value of the inputs stands for
Counted ==
    [v \in {None, StrV(<<"n","/","a">>)} |-> 0]
    @@ (StrV(<<"0">>) :> 0) @@ (StrV(<<"1">>) :> 1) @@ (StrV(<<"2">>) :> 2)
    @@ (StrV(<<"3">>) :> 3) @@ (IntV(3) :> 3) @@ (StrV(<<"4">>) :> 4)
    @@ (IntV(8) :> 8) @@ (StrV(<<"1","4">>) :> 14) @@ (StrV(<<"1","5">>) :> 15)
    @@ (StrV(<<"2","0">>) :> 20) @@ (StrV(<<"2","4">>) :> 24)
    @@ (StrV(<<"2","5">>) :> 25) @@ (StrV(<<"3","9">>) :> 39)
    @@ (StrV(<<"4","0">>) :> 40) @@ (StrV(<<"4","9">>) :> 49)
    @@ (StrV(<<"5","0">>) :> 50) @@ (StrV(<<"6","9">>) :> 69)
    @@ (StrV(<<"+","7","0">>) :> 70) @@ (StrV(<<"7","9">>) :> 79)
    @@ (IntV(80) :> 80) @@ (StrV(<<"9","9">>) :> 99)
    @@ (StrV(<<"1","0","0">>) :> 100) @@ (StrV(<<"2","0","0">>) :> 200)
    @@ (StrV(<<"2","9","9">>) :> 299) @@ (StrV(<<" ","3","0","0"," ">>) :> 300)
    @@ (StrV(<<"9","9","9">>) :> 999) @@ (IntV(1000) :> 1000)
    @@ (StrV(<<"1","2","0","0">>) :> 1200)

\* the percentage each share value of the inputs stands for, in hundredths
Hundredths ==
    (StrV(<<"0">>) :> 0) @@ (StrV(<<"1","9",".","9","9">>) :> 1999)
    @@ (StrV(<<"2","0">>) :> 2000) @@ (StrV(<<"3","4",".","9">>) :> 3490)
    @@ (StrV(<<"3","5",".","0">>) :> 3500)
    @@ (StrV(<<"3","9",".","9","9">>) :> 3999) @@ (StrV(<<"4","0">>) :> 4000)
    @@ (StrV(<<"5","4",".","9","9">>) :> 5499) @@ (StrV(<<" ","5","5">>) :> 5500)
    @@ (StrV(<<"6","9",".","9">>) :> 6990) @@ (StrV(<<"7","0">>) :> 7000)
    @@ (StrV(<<"1","0","0",".","0">>) :> 10000)

\* the flag values that say a fund used Edgar Agents LLC
UsedEdgarAgents ==
    { StrV(<<"t","r","u","e">>), StrV(<<"T","r","u","e">>), BoolV(TRUE) }

CountIn(row, key) == IF key \in DOMAIN row THEN Counted[row[key]] ELSE 0

RECURSIVE CountOver(_, _)
CountOver(group, key) ==
    IF group = <<>> THEN 0
    ELSE CountIn(Head(group), key) + CountOver(Tail(group), key)

\* the inputs of the reference scoring of a group
Reference(group) ==
    [funds |-> Len(group),
     total |-> CountOver(group, "total_filings_in_window"),
     qes |-> CountOver(group, "qes_filings_in_window"),
     agents |-> CountOver(group, "total_agent_groups_used_in_window"),
     any_edgar_agents |->
         \E i \in 1..Len(group) :
            /\ "ever_filed_by_edgar_agents_llc_in_window" \in DOMAIN group[i]
            /\ group[i]["ever_filed_by_edgar_agents_llc_in_window"] \in UsedEdgarAgents]

\* qes_share < k, qes_share being qes / total * 100 and 0 when total is 0
ShareBelow(in, k) == IF in.total = 0 THEN 0 < k ELSE in.qes * 100 < k * in.total
\* average agent groups >= k
AverageAtLeast(in, k) == in.agents >= k * in.funds

ReferenceValue(in) ==
    (IF in.total >= 1000 THEN 3 ELSE IF in.total >= 300 THEN 2
     ELSE IF in.total >= 100 THEN 1 ELSE 0)
    + (IF in.funds >= 10 THEN 2 ELSE IF in.funds >= 4 THEN 1 ELSE 0)

ReferenceSwitch(in) ==
    (IF ShareBelow(in, 25) THEN 3 ELSE IF ShareBelow(in, 50) THEN 2
     ELSE IF ShareBelow(in, 70) THEN 1 ELSE 0)
    + (IF AverageAtLeast(in, 4) THEN 2 ELSE IF AverageAtLeast(in, 2) THEN 1 ELSE 0)
    + (IF in.any_edgar_agents THEN 1 ELSE 0)

ReferenceDollars(score) ==
    IF score >= 5 THEN "$$$$" ELSE IF score >= 3 THEN "$$$"
    ELSE IF score >= 2 THEN "$$" ELSE "$"

ReferenceOpenness(score) ==
    IF score >= 5 THEN "Very High" ELSE IF score = 4 THEN "High"
    ELSE IF score = 3 THEN "Medium" ELSE IF score = 2 THEN "Low" ELSE "Very Low"

ReferenceTier(sum) ==
    IF sum >= 8 THEN "Tier 1" ELSE IF sum >= 6 THEN "Tier 2"
    ELSE IF sum >= 4 THEN "Tier 3" ELSE "Tier 4"

FamilyWasScored == report = "family" /\ pc \in {"scored", "rescored"}
VendorWasScored == report = "vendor" /\ pc \in {"scored", "rescored"}

EqualsReference(in) ==
    /\ summary.scores.value_score = ReferenceValue(in)
    /\ summary.scores.switch_score = ReferenceSwitch(in)
    /\ summary.result.potential_value_to_ea = <<ReferenceDollars(ReferenceValue(in))>>
    /\ summary.result.openness_to_switch = <<ReferenceOpenness(ReferenceSwitch(in))>>
    /\ summary.result.tier = <<ReferenceTier(ReferenceValue(in) + ReferenceSwitch(in))>>

(* C5: for every group of family records the scores of _scores and the     *)
(* labels and tier of summarize_family are those of the reference scoring  *)
(* (filing and fund cut-points, share and agent cut-points, the Edgar      *)
(* Agents point, the three label tables; a share of 0 when there are no    *)
(* filings; non-numeric or missing counts as 0), and scoring the same      *)
(* group a second time gives the same result.                              *)
C5_ReferenceScoring ==
    /\ [](FamilyWasScored => EqualsReference(Reference(rows)))
    /\ [][(FamilyWasScored /\ rows' = rows) => summary' = summary]_vars

\* the example of the claim, scored twice: 5 funds, 1200 filings, 200 by
\* QES, 20 agent groups
C5_Witness ==
    /\ report = "family" /\ pc = "rescored" /\ calls["score"] = 2
    /\ Reference(rows) = [funds |-> 5, total |-> 1200, qes |-> 200, agents |-> 20,
                          any_edgar_agents |-> FALSE]
    /\ summary.scores = [value_score |-> 4, switch_score |-> 5]
    /\ summary.result.potential_value_to_ea = <<"$$$">>
    /\ summary.result.openness_to_switch = <<"Very High">>

\* the ranks of the labels, lowest first
DollarRank == ("$" :> 1) @@ ("$$" :> 2) @@ ("$$$" :> 3) @@ ("$$$$" :> 4)
OpennessRank ==
    ("Very Low" :> 1) @@ ("Low" :> 2) @@ ("Medium" :> 3) @@ ("High" :> 4)
    @@ ("Very High" :> 5)
LikelihoodRank ==
    ("Very Low" :> 1) @@ ("Low" :> 2) @@ ("Possible" :> 3) @@ ("Likely" :> 4)
    @@ ("Very Likely" :> 5)
TierRank == ("Tier 4" :> 1) @@ ("Tier 3" :> 2) @@ ("Tier 2" :> 3) @@ ("Tier 1" :> 4)

\* the scores and the ranks of the labels of a scoring result
Ranked(rep, sum) ==
    IF rep = "family"
    THEN [value |-> sum.scores.value_score,
          switch |-> sum.scores.switch_score,
          dollars |-> DollarRank[sum.result.potential_value_to_ea[1]],
          likelihood |-> OpennessRank[sum.result.openness_to_switch[1]],
          tier |-> TierRank[sum.result.tier[1]]]
    ELSE [value |-> sum.scores.revenue_score,
          switch |-> sum.scores.switch_score,
          dollars |-> DollarRank[sum.result.money_rank[1]],
          likelihood |-> LikelihoodRank[sum.result.switch_rank[1]],
          tier |-> 0]

NoLowerSwitch(a, b) == b.switch >= a.switch /\ b.likelihood >= a.likelihood
NoLowerValue(a, b) == b.value >= a.value /\ b.dollars >= a.dollars

\* a table never maps a higher total to a lower-ranked label
TablesMonotonic(a, b) ==
    /\ b.value >= a.value => b.dollars >= a.dollars
    /\ b.switch >= a.switch => b.likelihood >= a.likelihood
    /\ b.value + b.switch >= a.value + a.switch => b.tier >= a.tier

\* share and average of reference inputs, compared by cross-multiplication
ShareOf(in) == IF in.total = 0 THEN <<0, 1>> ELSE <<in.qes * 100, in.total>>
AverageOf(in) == <<in.agents, in.funds>>
Leq(p, q) == p[1] * q[2] <= q[1] * p[2]
Same(p, q) == p[1] * q[2] = q[1] * p[2]

\* from family inputs a to family inputs b
FamilyMonotonic(a, b, ra, rb) ==
    /\ (Leq(ShareOf(b), ShareOf(a)) /\ Same(AverageOf(a), AverageOf(b))
        /\ a.any_edgar_agents = b.any_edgar_agents) => NoLowerSwitch(ra, rb)
    /\ (Leq(AverageOf(a), AverageOf(b)) /\ Same(ShareOf(a), ShareOf(b))
        /\ a.any_edgar_agents = b.any_edgar_agents) => NoLowerSwitch(ra, rb)
    /\ (b.total >= a.total /\ b.funds >= a.funds) => NoLowerValue(ra, rb)
    /\ TablesMonotonic(ra, rb)

\* row b is row a but for one field
OnlyDiffers(a, b, key) ==
    DOMAIN a = DOMAIN b /\ \A k \in DOMAIN a \ {key} : a[k] = b[k]

\* from company row a to company row b
VendorMonotonic(a, b, ra, rb) ==
    /\ (OnlyDiffers(a, b, "qes_percentage")
        /\ Hundredths[b.qes_percentage] <= Hundredths[a.qes_percentage])
          => NoLowerSwitch(ra, rb)
    /\ (OnlyDiffers(a, b, "other_agents_count")
        /\ Counted[b.other_agents_count] >= Counted[a.other_agents_count])
          => NoLowerSwitch(ra, rb)
    /\ (OnlyDiffers(a, b, "total_filings")
        /\ Counted[b.total_filings] >= Counted[a.total_filings])
          => NoLowerValue(ra, rb)
    /\ TablesMonotonic(ra, rb)

HasOneLabelEach ==
    /\ FamilyWasScored =>
          /\ summary.result.potential_value_to_ea[1] \in DOMAIN DollarRank
          /\ summary.result.openness_to_switch[1] \in DOMAIN OpennessRank
          /\ summary.result.tier[1] \in DOMAIN TierRank
    /\ VendorWasScored =>
          /\ summary.result.money_rank[1] \in DOMAIN DollarRank
          /\ summary.result.switch_rank[1] \in DOMAIN LikelihoodRank

(* C6: in both scorings, with the other inputs fixed, a lower QES share    *)
(* and a higher agent count never give a lower switch score or switch      *)
(* label, a higher filing count or fund count never gives a lower value    *)
(* (revenue) score or dollar label; every total reached has one label of   *)
(* its table and a higher total never has a lower-ranked label.            *)
C6_Monotonic ==
    /\ []HasOneLabelEach
    /\ [][(FamilyWasScored /\ pc' = "rescored") =>
             FamilyMonotonic(Reference(rows), Reference(rows'),
                             Ranked("family", summary), Ranked("family", summary'))]_vars
    /\ [][(VendorWasScored /\ pc' = "rescored") =>
             VendorMonotonic(rows[1], rows'[1],
                             Ranked("vendor", summary), Ranked("vendor", summary'))]_vars

\* a company row scored again with a lower share has moved up a bucket
C6_Witness ==
    /\ report = "vendor" /\ pc = "rescored" /\ calls["score"] = 2
    /\ rows[1].qes_percentage = StrV(<<"1","9",".","9","9">>)
    /\ rows[1].other_agents_count = IntV(3)
    /\ ~Truthy(rows[1].is_qes_dominant_filer)
    /\ summary.scores.switch_score = 6
    /\ summary.result.switch_rank = <<"Very Likely">>

-----------------------------------------------------------------------------
(* Claims on the Report Renderer and the CSV export *)

\* the trimmed family name each family value of the records stands for
FamilyNamed ==
    (None :> <<>>) @@ (StrV(AlphaFund) :> AlphaFund) @@ (StrV(BetaFund) :> BetaFund)
    @@ (StrV(<<" ">> \o AlphaFund \o <<"\n">>) :> AlphaFund)
NameOf(row) ==
    IF FamilyNameKey \in DOMAIN row THEN FamilyNamed[row[FamilyNameKey]] ELSE <<>>

\* the family names in lexicographic order
NamesInOrder == <<AlphaFund, BetaFund>>
Listed(names) == SelectSeq(NamesInOrder, LAMBDA n : n \in names)

\* the text a field value shows as
Shown(value) ==
    IF value = None THEN <<>>
    ELSE IF value.t = "bool" THEN (IF value.n = 1 THEN <<"T","r","u","e">>
                                   ELSE <<"F","a","l","s","e">>)
    ELSE value.s

MembersOf(name) == SelectSeq(rows, LAMBDA r : NameOf(r) = name)

FamilyRendered == report = "family" /\ calls["render"] = 1

(* C7: the family priority list and the per-family pages list each         *)
(* distinct trimmed family name once, in lexicographic order, whatever the *)
(* order of the records; each page has one sub-card per member record of   *)
(* its family, in their order; Total Funds is the number of records.       *)
C7_FamiliesSorted ==
    FamilyRendered =>
        LET names == Listed({NameOf(rows[i]) : i \in 1..Len(rows)})
        IN  /\ [i \in 1..Len(html.summary.family_lines) |->
                   html.summary.family_lines[i].name] = names
            /\ [i \in 1..Len(html.pages) |-> html.pages[i].family_name] = names
            /\ \A i \in 1..Len(names) :
                  [j \in 1..Len(html.pages[i].fund_cards) |->
                      html.pages[i].fund_cards[j]["companyCik"]]
                  = [j \in 1..Len(MembersOf(names[i])) |->
                        Shown(MembersOf(names[i])[j]["companyCik"])]
            /\ html.summary.total_funds = Len(rows)

\* the example of the claim, Beta Fund returned first
C7_Witness ==
    /\ FamilyRendered
    /\ [i \in 1..Len(rows) |-> NameOf(rows[i])] = <<BetaFund, AlphaFund, AlphaFund>>
    /\ rows[2] # rows[3]
    /\ html.summary.total_funds = 3
    /\ [i \in 1..Len(html.pages) |-> html.pages[i].family_name] = <<AlphaFund, BetaFund>>
    /\ Len(html.pages[1].fund_cards) = 2

RunEnded == pc \in {"done", "failed"}
QueryReturned == calls["query"] = 1 /\ error.at \notin {"main", "query"}

\* the derived fields of the report
DerivedOf(rep) == IF rep = "family" THEN Range(FamilyDerived) ELSE Range(VendorDerived)

\* data row j of the CSV carries record i: every field of the record is a
\* column and holds the value of the record
Carries(j, i) ==
    /\ DOMAIN rows[i] \subseteq Range(csv.header)
    /\ \A k \in DOMAIN rows[i] : csv.data[j][k] = Shown(rows[i][k])
    /\ \A k \in Range(csv.header) \ (DOMAIN rows[i] \cup DerivedOf(report)) :
          csv.data[j][k] = <<>>

(* C8: the CSV of a run holds the records the query returned, one data row *)
(* for each in the order of the report (none dropped, none duplicated),    *)
(* each row carrying the fields of its record with their values and the    *)
(* derived fields.                                                         *)
C8_CsvHasEveryRecord ==
    (pc = "done" /\ QueryReturned) =>
        /\ Len(csv.data) = Len(rows)
        /\ \E order \in [1..Len(rows) -> 1..Len(rows)] :
              /\ \A i, j \in 1..Len(rows) : order[i] = order[j] => i = j
              /\ \A i \in 1..Len(rows) : Carries(order[i], i)
        /\ rows # <<>> => DerivedOf(report) \subseteq Range(csv.header)

\* a family run that ended well although a record is not in its CSV
C8_RecordDropped ==
    /\ report = "family" /\ pc = "done"
    /\ Len(rows) = 2 /\ Len(csv.data) = 1
    /\ NameOf(rows[1]) = <<>> /\ NameOf(rows[2]) = AlphaFund
    /\ html.summary.total_funds = 2

\* the fields of the records of a run
FieldsOf(records) == UNION {DOMAIN records[i] : i \in 1..Len(records)}

(* C9: for every non-empty run, whatever the field sets of its records,    *)
(* write_csv completes and the columns are the union of the fields of the  *)
(* records and the derived fields, every row having all of them.           *)
C9_CsvColumnsAreUnion ==
    (QueryReturned /\ rows # <<>> /\ calls["csv"] = 1) =>
        /\ error.at # "csv"
        /\ Range(csv.header) = FieldsOf(rows) \cup DerivedOf(report)
        /\ \A j \in 1..Len(csv.data) : DOMAIN csv.data[j] = Range(csv.header)

\* write_csv raised on a later record with a field the first lacks
C9_WriteCsvRaised ==
    /\ pc = "failed" /\ error = Raise("ValueError", "csv", <<>>)
    /\ Len(rows) = 2 /\ ~(DOMAIN rows[2] \subseteq DOMAIN rows[1])
    /\ csv.exists /\ Len(csv.data) = 1 /\ printed = <<>>

\* the fields each report displays
DisplayedFields(rep) ==
    IF rep = "family" THEN Range(FamilyCardFields)
    ELSE Range(VendorSource) \cup Range(VendorDerived)

\* the cells displayed for the records, one function of field per record
DisplayedCells ==
    IF report = "family"
    THEN Flatten([i \in 1..Len(html.pages) |-> html.pages[i].fund_cards])
    ELSE html.table_rows

\* the records the report displays, in the order of the cells
DisplayedRecords ==
    IF report = "family"
    THEN Flatten([i \in 1..Len(Listed({NameOf(rows[n]) : n \in 1..Len(rows)})) |->
                     MembersOf(Listed({NameOf(rows[n]) : n \in 1..Len(rows)})[i])])
    ELSE rows

IsNull(row, key) == key \notin DOMAIN row \/ row[key] = None

(* C10: for every record the query returns the run produces the HTML/PDF,  *)
(* and every displayed field that is missing or null in a record renders   *)
(* as the empty string.                                                    *)
C10_NullRendersEmpty ==
    (QueryReturned /\ RunEnded) =>
        /\ pdf.exists
        /\ Len(DisplayedCells) = Len(DisplayedRecords)
        /\ \A i \in 1..Len(DisplayedCells) :
              \A f \in DisplayedFields(report) \ DerivedOf(report) :
                  IsNull(DisplayedRecords[i], f) => DisplayedCells[i][f] = <<>>

\* a vendor run that ended in score_company on a null filing count, with
\* no report
C10_NoReport ==
    /\ report = "vendor" /\ pc = "failed" /\ error = Raise("TypeError", "score", <<>>)
    /\ Len(rows) = 1 /\ rows[1].total_filings = None
    /\ ~pdf.exists /\ ~csv.exists

-----------------------------------------------------------------------------
(* Runs that find a CSV of an earlier run in place *)

\* the CSV an earlier run left at the output path
StaleFile ==
    [exists |-> TRUE, header |-> <<"companyName">>,
     data |-> <<[k \in {"companyName"} |-> <<"O","l","d">>]>>]

InitCsv ==
    /\ report \in {"family", "vendor"}
    /\ argv = GoodArgv
    /\ environ = NoEnviron
    /\ gcloud = GoodGcloud
    /\ bq \in BqReturns(report)
    /\ pc = "main"
    /\ project_id = <<>>
    /\ rows = <<>>
    /\ export_rows = <<>>
    /\ html = <<>>
    /\ pdf = NoDocument
    /\ csv \in {NoFile, StaleFile}
    /\ printed = <<>>
    /\ error = NoError
    /\ calls = [s \in Steps |-> 0]
    /\ summary = <<>>

SpecCsv == InitCsv /\ [][Next]_vars

-----------------------------------------------------------------------------
(* Claims on write_csv *)

WriteCsvRan == calls["csv"] = 1

\* the data rows hold the records in sequence order, a cell for every
\* column
RowPerRecord ==
    /\ Len(csv.data) = Len(export_rows)
    /\ \A i \in 1..Len(export_rows) :
          /\ DOMAIN csv.data[i] = Range(csv.header)
          /\ \A k \in Range(csv.header) :
                csv.data[i][k] = IF k \in DOMAIN export_rows[i]
                                 THEN Shown(export_rows[i][k]) ELSE <<>>

(* C11: write_csv on no records leaves an empty file with no header row,   *)
(* whatever was at the path before; on records it writes the field names   *)
(* of the first record as the header and then one data row per record in   *)
(* sequence order.                                                         *)
C11_WriteCsvLayout ==
    WriteCsvRan =>
        /\ error.at # "csv"
        /\ export_rows = <<>> => csv = [exists |-> TRUE, header |-> <<>>, data |-> <<>>]
        /\ export_rows # <<>> =>
              /\ csv.exists
              /\ Range(csv.header) = DOMAIN export_rows[1]
              /\ Len(csv.header) = Cardinality(DOMAIN export_rows[1])
              /\ RowPerRecord

\* a vendor run whose CSV replaced the old one and stops after the first
\* of two records
C11_RowsMissing ==
    /\ report = "vendor" /\ WriteCsvRan /\ pc = "failed"
    /\ error = Raise("ValueError", "csv", <<>>)
    /\ Len(export_rows) = 2 /\ Len(csv.data) = 1
    /\ Range(csv.header) = DOMAIN export_rows[1]
    /\ "companyName" \in DOMAIN csv.data[1] /\ csv.data[1]["companyName"] # <<"O","l","d">>

-----------------------------------------------------------------------------
(* Runs over records with form type counts *)

\* a fund with its qes_form_type_count_pairs
FundWithPairs(name, cik, pairs) ==
    [qes_form_type_count_pairs |-> pairs]
    @@ Fund(name, StrV(cik), <<"5">>, <<"1">>)

(* The records: well-formed pairs; a non-integer count, a part without     *)
(* "::" and a part with an empty form type; a tie with another form type;  *)
(* null pairs; no pairs column; a fund with no family name; a padded count *)
(* and a count with a second "::".                                         *)
FormRecords ==
    ("{a}" :> FundWithPairs(StrV(AlphaFund), <<"1">>,
                 StrV(<<"1","0","-","K",":",":","3","|","|","N","-","C","E","N",":",":","2">>)))
    @@ ("{b}" :> FundWithPairs(StrV(BetaFund), <<"2">>,
                 StrV(<<"N","-","C","E","N",":",":","1","|","|","1","0","-","K",":",":","x",
                        "|","|","b","a","d","|","|",":",":","4">>)))
    @@ ("{c}" :> FundWithPairs(StrV(AlphaFund), <<"3">>,
                 StrV(<<"8","-","K",":",":","2">>)))
    @@ ("{d}" :> FundWithPairs(StrV(BetaFund), <<"4">>, None))
    @@ ("{e}" :> Fund(StrV(AlphaFund), StrV(<<"5">>), <<"5">>, <<"1">>))
    @@ ("{f}" :> FundWithPairs(None, <<"6">>, StrV(<<"1","0","-","K",":",":","5">>)))
    @@ ("{g}" :> FundWithPairs(StrV(BetaFund), <<"7">>,
                 StrV(<<"1","0","-","K",":",":"," ","4"," ","|","|",
                        "N","-","C","E","N",":",":","1",":",":","2">>)))

InitForms ==
    /\ Fresh
    /\ report \in {"family", "vendor"}
    /\ argv = GoodArgv
    /\ environ = NoEnviron
    /\ gcloud = GoodGcloud
    /\ bq \in {[run EXCEPT !.objects = IF report = "family" THEN FormRecords ELSE @] :
                 run \in BqReturns(report)}

SpecForms == InitForms /\ [][Next]_vars

-----------------------------------------------------------------------------
(* Claims on the form type counts *)

\* the form types of the records, in ascending order
FormTypes == << <<"1","0","-","K">>, <<"8","-","K">>, <<"N","-","C","E","N">> >>

\* per record (by CIK): the count each well-formed segment of its pairs
\* gives its form type
SegmentCounts ==
    (<<"1">> :> [t \in {FormTypes[1], FormTypes[3]} |-> IF t = FormTypes[1] THEN 3 ELSE 2])
    @@ (<<"2">> :> [t \in {FormTypes[1], FormTypes[3]} |-> IF t = FormTypes[1] THEN 0 ELSE 1])
    @@ (<<"3">> :> [t \in {FormTypes[2]} |-> 2])
    @@ (<<"4">> :> <<>>)
    @@ (<<"5">> :> <<>>)
    @@ (<<"6">> :> [t \in {FormTypes[1]} |-> 5])
    @@ (<<"7">> :> [t \in {FormTypes[1], FormTypes[3]} |-> IF t = FormTypes[1] THEN 4 ELSE 0])

SegmentsOf(row) == SegmentCounts[row["companyCik"].s]

RECURSIVE SumOfType(_, _)
\* the sum over the records of the counts of a form type
SumOfType(records, t) ==
    IF records = <<>> THEN 0
    ELSE (IF t \in DOMAIN SegmentsOf(Head(records)) THEN SegmentsOf(Head(records))[t] ELSE 0)
         + SumOfType(Tail(records), t)

TypeRank(t) == CHOOSE i \in 1..Len(FormTypes) : FormTypes[i] = t

(* C12: the summary lists each form type of a well-formed segment of any   *)
(* input record once, with the sum over all input records of its integer   *)
(* counts (a part without "::" or with an empty form type skipped, a       *)
(* non-integer count as 0, no failure), by descending count and then       *)
(* ascending form type.                                                    *)
C12_FormCounts ==
    FamilyRendered =>
        LET items == html.summary.form_items
        IN  /\ error.at # "render"
            /\ {items[i].form_type : i \in 1..Len(items)}
               = UNION {DOMAIN SegmentsOf(rows[n]) : n \in 1..Len(rows)}
            /\ \A i \in 1..Len(items) : items[i].count = SumOfType(rows, items[i].form_type)
            /\ \A i, j \in 1..Len(items) :
                  i < j => \/ items[i].count > items[j].count
                           \/ /\ items[i].count = items[j].count
                              /\ TypeRank(items[i].form_type) < TypeRank(items[j].form_type)

\* the pairs of a fund with no family name are in no count
C12_PairsUncounted ==
    /\ FamilyRendered /\ Len(rows) = 2
    /\ rows[1]["companyCik"].s = <<"6">> /\ rows[2]["companyCik"].s = <<"3">>
    /\ html.summary.total_funds = 2
    /\ html.summary.form_items = <<[form_type |-> FormTypes[2], count |-> 2]>>

\* malformed segments were skipped and a tie was broken by form type
C12_Tolerant ==
    /\ FamilyRendered /\ Len(rows) = 2
    /\ rows[1]["companyCik"].s = <<"2">> /\ rows[2]["companyCik"].s = <<"3">>
    /\ html.summary.form_items =
          <<[form_type |-> FormTypes[2], count |-> 2],
            [form_type |-> FormTypes[3], count |-> 1],
            [form_type |-> FormTypes[1], count |-> 0]>>

-----------------------------------------------------------------------------
(* Runs over companies whose dominant filer flag comes in each form *)

\* a company with its is_qes_dominant_filer value
CompanyFlagged(cik, dominant) ==
    [Company(StrV(cik), StrV(<<"8","0">>), StrV(<<"1","0","-","K">>))
        EXCEPT !.is_qes_dominant_filer = dominant]

\* the flag as a JSON boolean, and as the text bq prints for a BOOL column
DominantRecords ==
    ("{a}" :> CompanyFlagged(<<"1">>, BoolV(FALSE)))
    @@ ("{b}" :> CompanyFlagged(<<"2">>, BoolV(TRUE)))
    @@ ("{c}" :> CompanyFlagged(<<"3">>, StrV(<<"f","a","l","s","e">>)))
    @@ ("{d}" :> CompanyFlagged(<<"4">>, StrV(<<"F","a","l","s","e">>)))
    @@ ("{e}" :> CompanyFlagged(<<"5">>, StrV(<<"t","r","u","e">>)))
    @@ ("{f}" :> CompanyFlagged(<<"6">>, StrV(<<"T","r","u","e">>)))
    @@ ("{g}" :> CompanyFlagged(<<"7">>, BoolV(FALSE)))

InitDominant ==
    /\ Fresh
    /\ report \in {"family", "vendor"}
    /\ argv = GoodArgv
    /\ environ = NoEnviron
    /\ gcloud = GoodGcloud
    /\ bq \in {[run EXCEPT !.objects = IF report = "vendor" THEN DominantRecords ELSE @] :
                 run \in BqReturns(report)}

SpecDominant == InitDominant /\ [][Next]_vars

-----------------------------------------------------------------------------
(* Claims on the dominant filer flag *)

\* the flag values that stand for false, and those that stand for true
FalseFlags == {BoolV(FALSE), StrV(<<"f","a","l","s","e">>), StrV(<<"F","a","l","s","e">>)}
TrueFlags == {BoolV(TRUE), StrV(<<"t","r","u","e">>), StrV(<<"T","r","u","e">>)}

\* the switch score of a company with a 12.5% share (3 points) and 3 other
\* agents (2 points), before the bonus, and the labels of that score and of
\* one more
ShareAndAgentsScore == 3 + 2
LabelWithoutBonus == "Likely"
LabelWithBonus == "Very Likely"

EndsWith(text, end) ==
    Len(text) >= Len(end) /\ SubSeq(text, Len(text) - Len(end) + 1, Len(text)) = end

VendorRendered == report = "vendor" /\ calls["render"] = 1

\* record i was scored and shown as a non-dominant filer
TreatedAsNotDominant(i) ==
    /\ score_company_scores(rows[i]).switch_score = ShareAndAgentsScore + 1
    /\ export_rows[i]["switch_rank"] = StrV(<<LabelWithBonus>>)
    /\ EndsWith(export_rows[i]["ai_reasoning"].s,
                <<", dominant=", "F", "a", "l", "s", "e", ".">>)
    /\ html.table_rows[i]["is_qes_dominant_filer"] = <<"No">>

\* record i was scored and shown as a dominant filer
TreatedAsDominant(i) ==
    /\ score_company_scores(rows[i]).switch_score = ShareAndAgentsScore
    /\ export_rows[i]["switch_rank"] = StrV(<<LabelWithoutBonus>>)
    /\ EndsWith(export_rows[i]["ai_reasoning"].s,
                <<", dominant=", "T", "r", "u", "e", ".">>)
    /\ html.table_rows[i]["is_qes_dominant_filer"] = <<"Yes">>

(* C13: a record whose is_qes_dominant_filer is false, as a boolean or as  *)
(* the text 'false' or 'False', gets the +1 bonus in its switch score,     *)
(* dominant=False in its rationale and 'No' in the Dominant Filer? column; *)
(* a record whose value is true gets no bonus and 'Yes'.                   *)
C13_DominantFlag ==
    VendorRendered =>
        /\ Len(export_rows) = Len(rows)
        /\ \A i \in 1..Len(rows) :
              /\ rows[i]["is_qes_dominant_filer"] \in FalseFlags => TreatedAsNotDominant(i)
              /\ rows[i]["is_qes_dominant_filer"] \in TrueFlags => TreatedAsDominant(i)

\* a record whose flag is the text 'false' was scored and shown as dominant
C13_FalseTextIsDominant ==
    /\ VendorRendered /\ Len(rows) = 2
    /\ rows[1]["is_qes_dominant_filer"] = StrV(<<"f","a","l","s","e">>)
    /\ rows[2]["is_qes_dominant_filer"] = BoolV(FALSE)
    /\ TreatedAsDominant(1)
    /\ TreatedAsNotDominant(2)

=============================================================================
